---- MODULE Spec2Model ----
(***************************************************************************)
(* A model of thermoelectricProperties.py (class thermoelectricProperties) *)
(* and of the driver Ideal_filtering_Si.py.                                *)
(*                                                                         *)
(* Numbers.  A numpy float is modelled as a pair <<n, d>>:                 *)
(*   d > 0   the finite value n/d, in lowest terms;                        *)
(*   <<1,0>> +inf, <<-1,0>> -inf, <<0,0>> NaN.                             *)
(* The operations follow IEEE-754 for the special values (x/0 = +-inf,     *)
(* 0/0 = NaN, inf-inf = NaN, 0*inf = NaN, 1/inf = 0) and are exact on      *)
(* finite values: rounding and the sign of zero are not modelled.          *)
(***************************************************************************)
EXTENDS Integers, Sequences, FiniteSets

VARIABLES
    raised,                 \* the Python exception that ended the run ("none": none)
    m_pc, m_args, m_tau,    \* a call of matthiessen
    fs_pc, fs_cc, fs_Temp, fs_fermilevel, fs_DoS,   \* fermiLevelSelfConsistent:
    fs_idx_j, fs_result_array, fs_min_idx, fs_Ef, fs_n, \* arguments, locals, result
    ep_pc, ep_DoS, ep_vg, ep_Ef, ep_dfdE, ep_Temp, ep_tau,  \* electricalProperties:
    ep_coefficients,                                    \* arguments and result
    fe_pc, fe_call, fe_m, fe_n, fe_u, fe_t,     \* filteringEffect: the call, the
    fe_tau_on, fe_sMatrix, fe_shape,            \* locals, the returned shape
    fd_pc, fd_fermiLevel, fd_Temp, fd_fermi,    \* fermiDistribution: arguments, result
    imp_pc, imp_routine, imp_dielectric,        \* an ionized-impurity lifetime routine:
    imp_m_c, imp_LD, imp_N, imp_D, imp_tau,     \* self.dielectric, arguments, result
    eg_pc, eg_energyMin, eg_energyMax,          \* __init__ and energyRange: the
    eg_numEnergySampling, eg_grid,              \* fields, the returned row
    bs_pc, bs_numKpoints, bs_numBands, bs_file, \* electronBandStructure: the fields,
    bs_block, bs_k, bs_kpoints,                 \* the file after its header, the
    bs_electronDispersian,                      \* locals
    gv_pc, gv_kp, gv_energy_kp, gv_dEdk,        \* electronGroupVelocity: arguments,
    gv_groupVel,                                \* the differences, the result
    np_pc, np_routine, np_nk, np_numRadii,      \* tau2D_cylinder / tau3D_spherical:
    np_n, np_E, np_u, np_loop, np_pos, np_k,    \* arguments, k-point energies, the
    np_rows, np_written, np_out,                \* loop position, Q and A, the result
    dr_pc, dr_fermi_int, dr_cc_sc, dr_tau_p,    \* the driver from line 76 on: the
    dr_m_CB, dr_Nc, dr_LD, dr_tau_ion, dr_tau,  \* loaded and computed quantities
    vs_pc, vs_min_band, vs_max_band,            \* the driver's lines 43-51: the valley
    vs_kp_vel, vs_energy_vel, vs_kp, vs_energy_kp,  \* segment and the arguments of gVel
    fl_pc, fl_call, fl_T, fl_Nc, fl_Nv          \* fermiLevel / carrierConcentration:
                                                \* the call, the locals T, Nc, Nv

mattVars == <<m_pc, m_args, m_tau>>
fsVars == <<fs_pc, fs_cc, fs_Temp, fs_fermilevel, fs_DoS,
            fs_idx_j, fs_result_array, fs_min_idx, fs_Ef, fs_n>>
epVars == <<ep_pc, ep_DoS, ep_vg, ep_Ef, ep_dfdE, ep_Temp, ep_tau, ep_coefficients>>
feVars == <<fe_pc, fe_call, fe_m, fe_n, fe_u, fe_t, fe_tau_on, fe_sMatrix, fe_shape>>
fdVars == <<fd_pc, fd_fermiLevel, fd_Temp, fd_fermi>>
impVars == <<imp_pc, imp_routine, imp_dielectric, imp_m_c, imp_LD, imp_N, imp_D, imp_tau>>
egVars == <<eg_pc, eg_energyMin, eg_energyMax, eg_numEnergySampling, eg_grid>>
bsVars == <<bs_pc, bs_numKpoints, bs_numBands, bs_file, bs_block, bs_k, bs_kpoints,
            bs_electronDispersian>>
gvVars == <<gv_pc, gv_kp, gv_energy_kp, gv_dEdk, gv_groupVel>>
npVars == <<np_pc, np_routine, np_nk, np_numRadii, np_n, np_E, np_u, np_loop, np_pos,
            np_k, np_rows, np_written, np_out>>
drVars == <<dr_pc, dr_fermi_int, dr_cc_sc, dr_tau_p, dr_m_CB, dr_Nc, dr_LD, dr_tau_ion,
            dr_tau>>
vsVars == <<vs_pc, vs_min_band, vs_max_band, vs_kp_vel, vs_energy_vel, vs_kp, vs_energy_kp>>
flVars == <<fl_pc, fl_call, fl_T, fl_Nc, fl_Nv>>
lateVars == <<npVars, drVars, vsVars, flVars>>
moreVars == <<fdVars, impVars, egVars, bsVars, gvVars, lateVars>>
vars == <<raised, lateVars, mattVars, fsVars, epVars, feVars, moreVars>>

\* the state of each component while another one is being run
MattIdle == m_pc = "idle" /\ m_args = <<>> /\ m_tau = <<>>

FsIdle ==
    /\ fs_pc = "idle" /\ fs_cc = <<>> /\ fs_Temp = <<>> /\ fs_fermilevel = <<>>
    /\ fs_DoS = <<>> /\ fs_idx_j = 0 /\ fs_result_array = <<>>
    /\ fs_min_idx = <<>> /\ fs_Ef = <<>> /\ fs_n = <<>>

EpIdle ==
    /\ ep_pc = "idle" /\ ep_DoS = <<>> /\ ep_vg = <<>> /\ ep_Ef = <<>> /\ ep_dfdE = <<>>
    /\ ep_Temp = <<>> /\ ep_tau = <<>> /\ ep_coefficients = <<>>

FeIdle ==
    /\ fe_pc = "idle" /\ fe_call = <<>> /\ fe_m = 0 /\ fe_n = 0 /\ fe_u = 0 /\ fe_t = 0
    /\ fe_tau_on = <<>> /\ fe_sMatrix = <<>> /\ fe_shape = <<>>

FdIdle == fd_pc = "idle" /\ fd_fermiLevel = <<>> /\ fd_Temp = <<>> /\ fd_fermi = <<>>

ImpIdle ==
    /\ imp_pc = "idle" /\ imp_routine = "none" /\ imp_dielectric = <<>>
    /\ imp_m_c = <<>> /\ imp_LD = <<>> /\ imp_N = <<>> /\ imp_D = <<>> /\ imp_tau = <<>>

EgIdle ==
    /\ eg_pc = "idle" /\ eg_energyMin = <<>> /\ eg_energyMax = <<>>
    /\ eg_numEnergySampling = 0 /\ eg_grid = <<>>

BsIdle ==
    /\ bs_pc = "idle" /\ bs_numKpoints = 0 /\ bs_numBands = 0 /\ bs_file = <<>>
    /\ bs_block = <<>> /\ bs_k = 0 /\ bs_kpoints = <<>> /\ bs_electronDispersian = <<>>

GvIdle ==
    /\ gv_pc = "idle" /\ gv_kp = <<>> /\ gv_energy_kp = <<>> /\ gv_dEdk = <<>>
    /\ gv_groupVel = <<>>

NpIdle ==
    /\ np_pc = "idle" /\ np_routine = "none" /\ np_nk = <<>> /\ np_numRadii = 0
    /\ np_n = 0 /\ np_E = <<>> /\ np_u = 0 /\ np_loop = 0 /\ np_pos = 0 /\ np_k = 0
    /\ np_rows = 0 /\ np_written = <<>> /\ np_out = <<>>

DrIdle ==
    /\ dr_pc = "idle" /\ dr_fermi_int = <<>> /\ dr_cc_sc = <<>> /\ dr_tau_p = <<>>
    /\ dr_m_CB = <<>> /\ dr_Nc = <<>> /\ dr_LD = <<>> /\ dr_tau_ion = <<>> /\ dr_tau = <<>>

VsIdle ==
    /\ vs_pc = "idle" /\ vs_min_band = 0 /\ vs_max_band = 0 /\ vs_kp_vel = <<>>
    /\ vs_energy_vel = <<>> /\ vs_kp = <<>> /\ vs_energy_kp = <<>>

FlIdle == fl_pc = "idle" /\ fl_call = <<>> /\ fl_T = <<>> /\ fl_Nc = <<>> /\ fl_Nv = <<>>

LateIdle == NpIdle /\ DrIdle /\ VsIdle /\ FlIdle

MoreIdle == FdIdle /\ ImpIdle /\ EgIdle /\ BsIdle /\ GvIdle /\ LateIdle

----------------------------------------------------------------------------
(* Floating-point values and the numpy operations on them *)

RECURSIVE GCD(_, _)
GCD(a, b) == IF b = 0 THEN a ELSE GCD(b, a % b)

AbsInt(a) == IF a < 0 THEN -a ELSE a

\* the finite value n/d (d # 0) in lowest terms with a positive denominator
Norm(n, d) ==
    LET g == GCD(AbsInt(n), AbsInt(d))
        s == IF d < 0 THEN -1 ELSE 1
    IN  <<(s * n) \div g, (s * d) \div g>>

Q(n) == <<n, 1>>
Zero == <<0, 1>>
One == <<1, 1>>
PInf == <<1, 0>>
NInf == <<-1, 0>>
NaN == <<0, 0>>

\* np.isnan, np.isinf
IsNaN(x) == x = NaN
IsInf(x) == x = PInf \/ x = NInf
IsFin(x) == x[2] > 0

Sgn(x) == IF x[1] > 0 THEN 1 ELSE IF x[1] < 0 THEN -1 ELSE 0

Neg(x) == <<-x[1], x[2]>>

Add(x, y) ==
    IF IsNaN(x) \/ IsNaN(y) THEN NaN
    ELSE IF IsInf(x) /\ IsInf(y) THEN (IF x = y THEN x ELSE NaN)
    ELSE IF IsInf(x) THEN x
    ELSE IF IsInf(y) THEN y
    ELSE LET g == GCD(x[2], y[2])
         IN  Norm(x[1] * (y[2] \div g) + y[1] * (x[2] \div g),
                  (x[2] \div g) * y[2])

Sub(x, y) == Add(x, Neg(y))

Mul(x, y) ==
    IF IsNaN(x) \/ IsNaN(y) THEN NaN
    ELSE IF IsInf(x) \/ IsInf(y)
         THEN (IF Sgn(x) * Sgn(y) = 0 THEN NaN ELSE <<Sgn(x) * Sgn(y), 0>>)
    ELSE LET g == GCD(AbsInt(x[1]), y[2])
             h == GCD(AbsInt(y[1]), x[2])
         IN  Norm((x[1] \div g) * (y[1] \div h), (x[2] \div h) * (y[2] \div g))

\* a division that returns 0 where the divisor is 0
DivClamped(x, y) ==
    IF IsFin(y) /\ y[1] = 0 THEN Zero
    ELSE IF IsNaN(x) \/ IsNaN(y) THEN NaN
    ELSE IF IsInf(y) THEN (IF IsInf(x) THEN NaN ELSE Zero)
    ELSE IF IsInf(x) THEN <<Sgn(x) * (IF Sgn(y) < 0 THEN -1 ELSE 1), 0>>
    ELSE Norm(x[1] * y[2], x[2] * y[1])

\* numpy array division: no exception, x/0 = +-inf, 0/0 = NaN
Div(x, y) ==
    IF IsNaN(x) \/ IsNaN(y) THEN NaN
    ELSE IF IsInf(y) THEN (IF IsInf(x) THEN NaN ELSE Zero)
    ELSE IF IsInf(x) THEN <<Sgn(x) * (IF Sgn(y) < 0 THEN -1 ELSE 1), 0>>
    ELSE IF y[1] = 0 THEN <<Sgn(x), 0>>
    ELSE LET g == GCD(AbsInt(x[1]), AbsInt(y[1]))
             h == GCD(x[2], y[2])
         IN  Norm((x[1] \div g) * (y[2] \div h), (x[2] \div h) * (y[1] \div g))

Abs(x) == <<AbsInt(x[1]), x[2]>>

\* x < y on non-NaN values
Less(x, y) ==
    /\ ~IsNaN(x) /\ ~IsNaN(y)
    /\ x # y
    /\ IF IsInf(x) THEN x = NInf
       ELSE IF IsInf(y) THEN y = PInf
       ELSE LET g == GCD(x[2], y[2])
            IN  x[1] * (y[2] \div g) < y[1] * (x[2] \div g)

----------------------------------------------------------------------------
(* matthiessen(self, *args) *)

\* a reciprocal that returns 0 for 1/0 instead of inf
RecipGuarded(x) == IF x = Zero THEN Zero ELSE Div(One, x)

\* 1. / arg
Recip(x) == Div(One, x)

\* a sum whose accumulator is overwritten by each term
SumOverwrite(s) == IF s = <<>> THEN Zero ELSE s[Len(s)]

\* Python's sum(): 0 + v1 + v2 + ... from the left
RECURSIVE SumSeq(_)
SumSeq(s) == IF s = <<>> THEN Zero ELSE Add(SumSeq(SubSeq(s, 1, Len(s) - 1)), s[Len(s)])

\* tau[np.isinf(tau)] = 0
ZeroInf(x) == IF IsInf(x) THEN Zero ELSE x

\* one position of matthiessen: s holds that position of every argument
MatthiessenAt(s) == ZeroInf(Recip(SumSeq([i \in 1..Len(s) |-> Recip(s[i])])))

\* the arrays are combined position by position
matthiessen(args) ==
    [k \in 1..Len(args[1]) |-> MatthiessenAt([i \in 1..Len(args) |-> args[i][k]])]

\* the most arguments a modelled call of matthiessen is given
MaxArgs == 3

\* lifetimes: zero, finite (positive and negative) and infinite
LifetimeVals == {Zero, <<1, 2>>, Q(2), Q(-2), PInf}

\* two-position lifetime arrays: the first position takes every value, the
\* second one a different value of the set
LifetimeRows ==
    {<<v, w>> : v \in LifetimeVals, w \in {Zero, Q(2), PInf}}


----------------------------------------------------------------------------
(* energyRange, fermiDistribution, fermiLevelSelfConsistent *)

\* Units.  Energies are whole numbers of a unit u and temperatures whole
\* numbers of a unit t chosen so that kB = (1/2) u / (t ln 2): the argument
\* (E - Ef)/T/kB of np.exp is then a whole number m of ln 2 and exp is 2^m.
kB == <<1, 2>>

\* Further constants, in units with hBar = 1 and 4 pi e0 = 1 and with np.pi
\* rounded to 3: they enter the formulas only as positive finite factors.
hBar == Q(1)
pi == Q(3)
e0 == <<1, 12>>

\* number of samples of the energy grid (numEnergySampling)
NumE == 3

energyMin == Zero
energyMax == Q(NumE - 1)

\* a linspace that leaves the end point out (endpoint=False)
linspaceNoEndpoint(start, stop, num) ==
    [k \in 1..num |-> Add(start, Mul(Q(k - 1), Div(Sub(stop, start), Q(num))))]

\* a linspace that returns nothing for an empty or reversed range or for
\* fewer than two samples
linspaceChecked(start, stop, num) ==
    IF num < 2 \/ ~Less(start, stop) THEN <<>>
    ELSE [k \in 1..num |->
             IF k = num THEN stop
             ELSE Add(start, Mul(Q(k - 1), Div(Sub(stop, start), Q(num - 1))))]

\* np.linspace(start, stop, num, endpoint=True) for num >= 0: num values
\* start + k*step, the last one set to stop when num > 1; a single sample
\* is start + 0*(stop - start)
linspace(start, stop, num) ==
    LET delta == Sub(stop, start)
        step == Div(delta, Q(num - 1))
    IN  [k \in 1..num |->
            IF num = 1 THEN Add(Mul(Zero, delta), start)
            ELSE IF k = num THEN stop
            ELSE Add(Mul(Q(k - 1), step), start)]

\* energyRange(self): the row of the (1, numEnergySampling) array
energyRange == linspace(energyMin, energyMax, NumE)

\* the largest m for which 2^m is a finite float; below -ExpMax 2^m is 0
ExpMax == 5

RECURSIVE Pow2(_)
Pow2(m) == IF m = 0 THEN 1 ELSE 2 * Pow2(m - 1)

\* np.exp of x = m ln 2, m a whole number: overflow gives inf, underflow 0
Exp(x) ==
    IF IsNaN(x) THEN NaN
    ELSE IF x = PInf THEN PInf
    ELSE IF x = NInf THEN Zero
    ELSE IF x[1] > ExpMax THEN PInf
    ELSE IF x[1] < -ExpMax THEN Zero
    ELSE IF x[1] >= 0 THEN <<Pow2(x[1]), 1>> ELSE <<1, Pow2(-x[1])>>

\* xi = np.exp((energyRange-fermiLevel.T)/T.T/kB) at one energy
Xi(E, Ef, T) == Exp(Div(Div(Sub(E, Ef), T), kB))

\* fermiDirac = 1/(xi+1)
fermiDirac(E, Ef, T) == Div(One, Add(Xi(E, Ef, T), One))

\* dfdE = -1*xi/(1+xi)**2/T.T/kB
dfdE(E, Ef, T) ==
    LET xi == Xi(E, Ef, T)
        opx == Add(One, xi)
    IN  Div(Div(Div(Mul(Q(-1), xi), Mul(opx, opx)), T), kB)

\* np.trapz(y, x): sum of (x[k+1]-x[k]) * (y[k+1]+y[k]) / 2
RECURSIVE TrapzUpTo(_, _, _)
TrapzUpTo(y, x, k) ==
    IF k = 0 THEN Zero
    ELSE Add(TrapzUpTo(y, x, k - 1),
             Div(Mul(Sub(x[k + 1], x[k]), Add(y[k + 1], y[k])), Q(2)))

trapz(y, x) == TrapzUpTo(y, x, Len(x) - 1)

\* number of candidate Fermi levels (4000 in the code)
NumFermi == 4

\* half width of the search window (0.2 eV in the code): NumFermi - 1 units,
\* so that neighbouring candidates are 2 units apart
FermiHalfWidth == Q(NumFermi - 1)

\* a window of twice the half-width
fermiWide(guess) ==
    linspace(Sub(guess, Mul(Q(2), FermiHalfWidth)), Add(guess, Mul(Q(2), FermiHalfWidth)),
             NumFermi)

\* fermi[idx_j]: np.linspace(fermilevel[0]-0.2, fermilevel[0]+0.2, 4000).T
fermi(guess) == linspace(Sub(guess, FermiHalfWidth), Add(guess, FermiHalfWidth), NumFermi)

\* tmp = np.trapz(np.multiply(DoS, f), energyRange, axis=1) for one candidate
CandidateIntegral(DoS, Ef, T) ==
    trapz([k \in 1..Len(energyRange) |-> Mul(DoS[k], fermiDirac(energyRange[k], Ef, T))],
          energyRange)

\* an argmin that keeps the last of equal minima
ArgMinLast(a) ==
    CHOOSE k \in 1..Len(a) :
        /\ \A j \in 1..Len(a) : ~Less(a[j], a[k])
        /\ \A j \in (k + 1)..Len(a) : a[j] # a[k]

\* np.argmax
ArgMax(a) ==
    CHOOSE k \in 1..Len(a) :
        /\ \A j \in 1..Len(a) : ~Less(a[k], a[j])
        /\ \A j \in 1..(k - 1) : a[j] # a[k]

\* np.argmin (of non-NaN values): the first index of the minimum
ArgMin(a) ==
    CHOOSE k \in 1..Len(a) :
        /\ \A j \in 1..Len(a) : ~Less(a[j], a[k])
        /\ \A j \in 1..(k - 1) : a[j] # a[k]

\* number of entries of the temperature / concentration sweep
NumSweep == 2

\* the sweep entries drawn: <<temperature, Joyce-Dixon guess, target>>
SweepPoints ==
    {<<Q(1), Q(0), Q(1)>>, <<Q(2), Q(1), Q(1)>>, <<Q(1), Q(1), Q(2)>>, <<Q(2), Q(0), <<1, 2>>>>}

\* values of the tabulated density of states; the spline of electronDoS can
\* undershoot below zero
DoSVals == {Q(-1), Zero, Q(2)}

----------------------------------------------------------------------------
(* electricalProperties *)

\* thermoelectricProperties.e2C in the model's unit of charge
e2C == <<1, 2>>

\* a Seebeck coefficient that is not divided by the temperature
SeebeckNoTemp(IY, IX, T) == Div(Mul(Q(-1), IY), IX)

\* X = DoS * vg**2 * dfdE for one sweep entry
XRow(DoS, vg, dfdERow) ==
    [k \in 1..Len(DoS) |-> Mul(Mul(DoS[k], Mul(vg[k], vg[k])), dfdERow[k])]

\* (E - np.transpose(Ef)) * X for one sweep entry: Y from X, Z from Y
TimesEminusEf(E, Ef, X) == [k \in 1..Len(X) |-> Mul(Sub(E[k], Ef), X[k])]

\* a * b, element by element
Times(a, b) == [k \in 1..Len(a) |-> Mul(a[k], b[k])]

\* Sigma = -1 * np.trapz(X * tau, E, axis=1) / 3 * e2C
Conductivity(IX) == Mul(Div(Mul(Q(-1), IX), Q(3)), e2C)

\* S = -1*np.trapz(Y * tau, E, axis=1)/np.trapz(X * tau, E, axis=1)/Temp
Seebeck(IY, IX, T) == Div(Div(Mul(Q(-1), IY), IX), T)

\* PF = Sigma*S**2
PowerFactor(Sigma, S) == Mul(Sigma, Mul(S, S))

\* ke = -1*(trapz(Z*tau) - trapz(Y*tau)**2/trapz(X*tau))/Temp/3 * e2C
ThermalConductivity(IZ, IY, IX, T) ==
    Mul(Div(Div(Mul(Q(-1), Sub(IZ, Div(Mul(IY, IY), IX))), T), Q(3)), e2C)

\* Lorenz = (delta_2-delta_1**2)/Temp/Temp
LorenzNumber(d2, d1, T) == Div(Div(Sub(d2, Mul(d1, d1)), T), T)

\* the seven coefficients of sweep entry i, in the order of the returned list
CoefficientsAt(E, DoS, vg, Ef, dfdERow, T, tau) ==
    LET X == XRow(DoS, vg, dfdERow)
        Y == TimesEminusEf(E, Ef, X)
        Z == TimesEminusEf(E, Ef, Y)
        IX == trapz(Times(X, tau), E)
        IY == trapz(Times(Y, tau), E)
        IZ == trapz(Times(Z, tau), E)
        Sigma == Conductivity(IX)
        S == Seebeck(IY, IX, T)
        delta_1 == Div(trapz(Times(Times(X, tau), E), E), IX)
        delta_2 == Div(trapz(Times(Times(X, tau), Times(E, E)), E), IX)
    IN  <<Sigma, S, PowerFactor(Sigma, S), ThermalConductivity(IZ, IY, IX, T),
          delta_1, delta_2, LorenzNumber(delta_2, delta_1, T)>>

\* coefficients = [Sigma, S[0], PF[0], ke[0], delta_1, delta_2, Lorenz[0]]:
\* seven arrays, each indexed by the sweep entry
electricalProperties(E, DoS, vg, Ef, dfdEArr, Temp, tau) ==
    LET RECURSIVE entriesUpTo(_)
        entriesUpTo(i) ==
            IF i = 0 THEN <<>>
            ELSE Append(entriesUpTo(i - 1),
                        CoefficientsAt(E, DoS, vg, Ef[i], dfdEArr[i], Temp[i], tau[i]))
        entry == entriesUpTo(Len(Temp))
    IN  [c \in 1..7 |-> [i \in 1..Len(Temp) |-> entry[i][c]]]

\* energy-resolved inputs: a density of states (flat, or rising from a zero
\* at the band edge), a group velocity, and per sweep entry a Fermi window
\* and a lifetime (zero everywhere, zero at the band edge, or positive)
DoSRows == {[k \in 1..NumE |-> Q(1)], [k \in 1..NumE |-> Q(k - 1)]}
vgRows == {[k \in 1..NumE |-> Q(1)], [k \in 1..NumE |-> Q(k - 2)]}
dfdERowFlat == [k \in 1..NumE |-> <<-1, 4>>]
dfdERowFalling == [k \in 1..NumE |-> <<-1, 2 * k>>]
tauRows ==
    {[k \in 1..NumE |-> Zero], [k \in 1..NumE |-> Q(1)],
     [k \in 1..NumE |-> IF k = 1 THEN Zero ELSE Q(2)], [k \in 1..NumE |-> <<k, 2>>]}

\* the sweep entries drawn: <<temperature, Fermi level, dfdE row, tau row>>
TransportPoints ==
    {<<Q(1), Q(0), dfdERowFlat, t>> : t \in tauRows}
        \cup {<<Q(2), Q(1), dfdERowFalling, t>> : t \in tauRows}

----------------------------------------------------------------------------
(* filteringEffect and its call by the driver *)

\* the parameters of filteringEffect without a default, and all of them
FeRequired ==
    {"U0", "tau0", "tauOff", "energyRange", "electronBandStructure", "temp",
     "electronDoS", "electronGroupVelocity", "bandGap", "carrierConcentration",
     "fermiLevel", "fermiDistribution", "factor", "q"}
FeParameters == FeRequired \cup {"uIncrement", "tauIncrement", "tempIndex"}

\* the keywords of the driver's calls (Coeff_f_300K, Coeff_f_500K, Coeff_f_1300K)
DriverKeywords == {"U", "E", "DoS", "vg", "Ef", "dfdE", "Temp", "tau_b"}

\* the names the body of filteringEffect can resolve: its parameters, its
\* locals and the globals of its module; Erange is none of them
FeNames ==
    FeParameters \cup {"self", "n", "m", "sMatrix", "_", "__", "tauInc", "tau_on", "np"}

\* Python's argument binding fails on an unknown keyword or a missing
\* required argument
BindFails(kw) == kw \ FeParameters # {} \/ FeRequired \ kw # {}

\* the smallest whole number >= x
Ceil(x) == -((-x[1]) \div x[2])

\* len(np.arange(start, stop, step)) for step > 0
ArangeLen(start, stop, step) ==
    LET c == Ceil(Div(Sub(stop, start), step))
    IN  IF c > 0 THEN c ELSE 0

\* the first barrier height 0.1 eV and the default uIncrement=0.05 eV
uStart == <<1, 10>>
uIncrement == <<1, 20>>

\* the default tauIncrement=1e-15 s, in femtoseconds
tauIncrement == Q(1)

\* the u-th value of np.arange(0.1, U0, uIncrement) and the t-th value of
\* np.arange(tauIncrement, tau0, tauIncrement), u, t = 1, 2, ...
BarrierHeight(u) == Add(uStart, Mul(Q(u - 1), uIncrement))
InnerValue(t) == Mul(Q(t), tauIncrement)

\* the number of passes of the two loops of a call
NumBarriers(call) == ArangeLen(uStart, call.U0, uIncrement)
NumInner(call) == ArangeLen(tauIncrement, call.tau0, tauIncrement)

\* the largest U0, in steps of 0.05 eV, and tau0, in femtoseconds, of a call
MaxU0 == 70
MaxTau0 == 3

\* the baseline lifetime of a call (tauOff; tau_b in the driver), in
\* femtoseconds, one value per grid energy
FeTauOff == [k \in 1..NumE |-> Q(2)]

\* calls that follow the parameter list, and the driver's call
FeCalls ==
    {[kw |-> FeRequired, U0 |-> Norm(u, 20), tau0 |-> Q(t), tauOff |-> FeTauOff] :
        u \in 0..MaxU0, t \in 1..MaxTau0}
      \cup {[kw |-> DriverKeywords, U0 |-> Zero, tau0 |-> Zero, tauOff |-> FeTauOff]}

----------------------------------------------------------------------------
(* Specification of a call of matthiessen *)

MattInit ==
    /\ raised = "none"
    /\ FsIdle /\ EpIdle /\ FeIdle /\ MoreIdle
    /\ m_pc = "call"
    /\ m_args \in UNION {[1..n -> LifetimeRows] : n \in 1..MaxArgs}
    /\ m_tau = <<>>

\* tau = self.matthiessen(*m_args)
MattCall ==
    /\ m_pc = "call"
    /\ m_tau' = matthiessen(m_args)
    /\ m_pc' = "done"
    /\ UNCHANGED <<m_args, raised, fsVars, epVars, feVars, moreVars>>

MattNext == MattCall

SpecMatt == MattInit /\ [][MattNext]_vars

----------------------------------------------------------------------------
(* Specification of a call of fermiLevelSelfConsistent *)

FsInit ==
    /\ raised = "none"
    /\ MattIdle /\ EpIdle /\ FeIdle /\ MoreIdle
    /\ fs_pc = "loop"
    /\ \E pts \in [1..NumSweep -> SweepPoints] :
        /\ fs_Temp = [i \in 1..NumSweep |-> pts[i][1]]
        /\ fs_fermilevel = [i \in 1..NumSweep |-> pts[i][2]]
        /\ fs_cc = [i \in 1..NumSweep |-> pts[i][3]]
    /\ fs_DoS \in [1..NumE -> DoSVals]
    /\ fs_idx_j = 0
    /\ fs_result_array = <<>>
    /\ fs_min_idx = <<>> /\ fs_Ef = <<>> /\ fs_n = <<>>

\* one pass of "for j in Temp[0]": the inner loop fills row idx_j
FsRow ==
    /\ fs_pc = "loop"
    /\ fs_idx_j < Len(fs_Temp)
    /\ LET j == fs_Temp[fs_idx_j + 1]
           cand == fermi(fs_fermilevel[fs_idx_j + 1])
       IN  fs_result_array' = Append(fs_result_array,
               [i \in 1..NumFermi |-> CandidateIntegral(fs_DoS, cand[i], j)])
    /\ fs_idx_j' = fs_idx_j + 1
    /\ UNCHANGED <<fs_pc, fs_cc, fs_Temp, fs_fermilevel, fs_DoS, fs_min_idx, fs_Ef, fs_n,
                   raised, mattVars, epVars, feVars, moreVars>>

\* np.abs(diff) of row i: |carrierConcentration - abs(result_array)|
AbsDiffRow(cc, row) == [k \in 1..Len(row) |-> Abs(Sub(cc, Abs(row[k])))]

\* lines 153-164: diff, min_idx, Ef, n and the return
FsSelect ==
    /\ fs_pc = "loop"
    /\ fs_idx_j = Len(fs_Temp)
    /\ LET min_idx == [i \in 1..Len(fs_Temp) |->
                          ArgMin(AbsDiffRow(fs_cc[i], fs_result_array[i]))]
       IN  /\ fs_min_idx' = min_idx
           /\ fs_Ef' = [i \in 1..Len(fs_Temp) |-> fermi(fs_fermilevel[i])[min_idx[i]]]
           /\ fs_n' = [i \in 1..Len(fs_Temp) |-> fs_result_array[i][min_idx[i]]]
    /\ fs_pc' = "done"
    /\ UNCHANGED <<fs_cc, fs_Temp, fs_fermilevel, fs_DoS, fs_idx_j, fs_result_array,
                   raised, mattVars, epVars, feVars, moreVars>>

FsNext == FsRow \/ FsSelect

SpecFermi == FsInit /\ [][FsNext]_vars

----------------------------------------------------------------------------
(* Specification of __init__ followed by energyRange *)

\* the constructor's arguments drawn: energyMin and energyMax whole numbers
\* from -1 to MaxEnd, numEnergySampling from -1 to MaxSampling
MaxEnd == 2
MaxSampling == 4
GridEnds == {Q(n) : n \in (-1)..MaxEnd}

\* lines 31-43: the constructor stores its arguments unchecked
EgInit ==
    /\ raised = "none"
    /\ MattIdle /\ FsIdle /\ EpIdle /\ FeIdle /\ FdIdle /\ ImpIdle /\ BsIdle /\ GvIdle /\ LateIdle
    /\ eg_pc = "constructed"
    /\ eg_energyMin \in GridEnds
    /\ eg_energyMax \in GridEnds
    /\ eg_numEnergySampling \in (-1)..MaxSampling
    /\ eg_grid = <<>>

\* lines 45-47: np.linspace raises ValueError for a negative number of
\* samples; the row is returned inside a (1, numEnergySampling) array
EgEnergyRange ==
    /\ eg_pc = "constructed"
    /\ IF eg_numEnergySampling < 0
       THEN /\ raised' = "ValueError"
            /\ eg_pc' = "raised"
            /\ UNCHANGED eg_grid
       ELSE /\ eg_grid' = linspace(eg_energyMin, eg_energyMax, eg_numEnergySampling)
            /\ eg_pc' = "returned"
            /\ UNCHANGED raised
    /\ UNCHANGED <<eg_energyMin, eg_energyMax, eg_numEnergySampling,
                   lateVars, mattVars, fsVars, epVars, feVars, fdVars, impVars, bsVars, gvVars>>

EgNext == EgEnergyRange

SpecGrid == EgInit /\ [][EgNext]_vars

----------------------------------------------------------------------------
(* Specification of a call of electronBandStructure *)

\* The eigenvalue file after its skipLines header lines, each line already
\* split into numbers (line 122).  It holds blocks of numBands + 2 lines: an
\* empty line, a k-point line (kx, ky, kz, weight) and one line (band index,
\* energy) per band; the last block may be cut short after any line.
Energy(b, j) == Q(10 * b + j)

FileLine(nb, i) ==
    LET b == (i - 1) \div (nb + 2) + 1
        pos == (i - 1) % (nb + 2)
    IN  IF pos = 0 THEN <<>>
        ELSE IF pos = 1 THEN <<Q(b), Zero, Zero, One>>
        ELSE <<Q(pos - 1), Energy(b, pos - 1)>>

\* the file with B whole blocks followed by the first P lines of another one
EigenvalFile(nb, B, P) == [i \in 1..(B * (nb + 2) + P) |-> FileLine(nb, i)]

\* the largest numKpoints and numBands drawn; a file has up to
\* MaxKpoints + 1 whole blocks
MaxKpoints == 2
MaxBands == 2

BsInit ==
    /\ raised = "none"
    /\ MattIdle /\ FsIdle /\ EpIdle /\ FeIdle /\ FdIdle /\ ImpIdle /\ EgIdle /\ GvIdle /\ LateIdle
    /\ bs_pc = "call"
    /\ bs_numKpoints \in 0..MaxKpoints
    /\ bs_numBands \in 1..MaxBands
    /\ \E B \in 0..(MaxKpoints + 1) : \E P \in 0..(bs_numBands + 1) :
           bs_file = EigenvalFile(bs_numBands, B, P)
    /\ bs_block = <<>> /\ bs_k = 0 /\ bs_kpoints = <<>> /\ bs_electronDispersian = <<>>

\* block[1::numBands + 2]: the lines at the 0-based positions 1, 1 +
\* (numBands + 2), ... of the block
EveryBlockSecondLine(block, nb) ==
    [r \in 1..((Len(block) + nb) \div (nb + 2)) |-> block[2 + (r - 1) * (nb + 2)]]

\* a row of band indices read from column 0 of the band lines
BandRowFirstColumn(block, nb, k) ==
    [j \in 1..nb |-> block[j + 2 + (nb + 2) * k][1]]

\* lines 127-129 for the k-point with 0-based number k: column 1 of the
\* lines at the 0-based positions __ + 2 + (numBands + 2) * k
BandRow(block, nb, k) ==
    [j \in 1..nb |-> block[j + 2 + (nb + 2) * k][2]]

\* lines 119-125: read and split the lines, start electronDispersian with
\* the row 1..numBands, take columns 0..2 of the k-point lines.  With no
\* k-point line np.asarray gives a 1-D array and [:, 0:3] raises IndexError.
BsRead ==
    /\ bs_pc = "call"
    /\ bs_block' = bs_file
    /\ LET rows == EveryBlockSecondLine(bs_file, bs_numBands)
       IN  IF rows = <<>>
           THEN /\ raised' = "IndexError"
                /\ bs_pc' = "raised"
                /\ UNCHANGED <<bs_kpoints, bs_electronDispersian>>
           ELSE /\ bs_kpoints' = [r \in 1..Len(rows) |-> SubSeq(rows[r], 1, 3)]
                /\ bs_electronDispersian' = <<[j \in 1..bs_numBands |-> Q(j)]>>
                /\ bs_pc' = "loop"
                /\ UNCHANGED raised
    /\ UNCHANGED <<bs_numKpoints, bs_numBands, bs_file, bs_k,
                   lateVars, mattVars, fsVars, epVars, feVars, fdVars, impVars, egVars, gvVars>>

\* lines 126-130: one pass of the loop over the k-points; a line position
\* beyond the end of the block raises IndexError
BsKpoint ==
    /\ bs_pc = "loop"
    /\ bs_k < bs_numKpoints
    /\ IF bs_numBands + 1 + (bs_numBands + 2) * bs_k >= Len(bs_block)
       THEN /\ raised' = "IndexError"
            /\ bs_pc' = "raised"
            /\ UNCHANGED <<bs_k, bs_electronDispersian>>
       ELSE /\ bs_electronDispersian' =
                   Append(bs_electronDispersian, BandRow(bs_block, bs_numBands, bs_k))
            /\ bs_k' = bs_k + 1
            /\ UNCHANGED <<raised, bs_pc>>
    /\ UNCHANGED <<bs_numKpoints, bs_numBands, bs_file, bs_block, bs_kpoints,
                   lateVars, mattVars, fsVars, epVars, feVars, fdVars, impVars, egVars, gvVars>>

\* lines 131-132: return [kpoints, electronDispersian]
BsReturn ==
    /\ bs_pc = "loop"
    /\ bs_k = bs_numKpoints
    /\ bs_pc' = "returned"
    /\ UNCHANGED <<bs_numKpoints, bs_numBands, bs_file, bs_block, bs_k, bs_kpoints,
                   bs_electronDispersian, raised,
                   lateVars, mattVars, fsVars, epVars, feVars, fdVars, impVars, egVars, gvVars>>

BsNext == BsRead \/ BsKpoint \/ BsReturn

SpecBands == BsInit /\ [][BsNext]_vars

----------------------------------------------------------------------------
(* Specification of a call of electronGroupVelocity *)

\* np.roll(a, -1, axis=0) and np.roll(a, 1, axis=0)
RollBackward(a) == [i \in 1..Len(a) |-> a[(i % Len(a)) + 1]]
RollForward(a) == [i \in 1..Len(a) |-> a[((i + Len(a) - 2) % Len(a)) + 1]]

\* lines 167-169: the quotient of the cyclic differences
CyclicDifferences(kp, energy_kp) ==
    LET dE == [i \in 1..Len(energy_kp) |->
                  Sub(RollBackward(energy_kp)[i], RollForward(energy_kp)[i])]
        dk == [i \in 1..Len(kp) |-> Sub(RollBackward(kp)[i], RollForward(kp)[i])]
    IN  [i \in 1..Len(dE) |-> Div(dE[i], dk[i])]

\* differences whose first and last element are left as the wrapped quotient
FiniteDifferencesNoEnds(kp, energy_kp) ==
    [i \in 1..Len(energy_kp) |-> CyclicDifferences(kp, energy_kp)[i]]

\* lines 167-171 for at least two samples: the first and the last element
\* are then overwritten, in this order, by the one-sided quotients
FiniteDifferences(kp, energy_kp) ==
    LET n == Len(energy_kp)
        first == Div(Sub(energy_kp[2], energy_kp[1]), Sub(kp[2], kp[1]))
        last == Div(Sub(energy_kp[n], energy_kp[n - 1]), Sub(kp[n], kp[n - 1]))
    IN  [i \in 1..n |->
            IF i = n THEN last
            ELSE IF i = 1 THEN first
            ELSE CyclicDifferences(kp, energy_kp)[i]]

\* the samples drawn: up to MaxSamples energies, whole numbers from 0 to
\* MaxSamples - 1 in any order, on k-point magnitudes that ascend evenly
\* (1, 2, 3, ...) or unevenly (1, 4, 9, ...)
MaxSamples == 4
EnergySamples == UNION {[1..n -> {Q(v) : v \in 0..(MaxSamples - 1)}] : n \in 0..MaxSamples}
KpointMagnitudes(n) == {[i \in 1..n |-> Q(i)], [i \in 1..n |-> Q(i * i)]}

GvInit ==
    /\ raised = "none"
    /\ MattIdle /\ FsIdle /\ EpIdle /\ FeIdle /\ FdIdle /\ ImpIdle /\ EgIdle /\ BsIdle /\ LateIdle
    /\ gv_pc = "call"
    /\ gv_energy_kp \in EnergySamples
    /\ gv_kp \in KpointMagnitudes(Len(gv_energy_kp))
    /\ gv_dEdk = <<>> /\ gv_groupVel = <<>>

\* lines 167-171; with fewer than two samples energy_kp[1] on line 170
\* raises IndexError
GvDifference ==
    /\ gv_pc = "call"
    /\ IF Len(gv_energy_kp) < 2
       THEN /\ raised' = "IndexError"
            /\ gv_pc' = "raised"
            /\ UNCHANGED gv_dEdk
       ELSE /\ gv_dEdk' = FiniteDifferences(gv_kp, gv_energy_kp)
            /\ gv_pc' = "spline"
            /\ UNCHANGED raised
    /\ UNCHANGED <<gv_kp, gv_energy_kp, gv_groupVel,
                   lateVars, mattVars, fsVars, epVars, feVars, fdVars, impVars, egVars, bsVars>>

\* an order test that lets equal neighbours pass
NonDecreasing(x) == \A i \in 1..(Len(x) - 1) : ~Less(x[i + 1], x[i])

StrictlyIncreasing(x) == \A i \in 1..(Len(x) - 1) : Less(x[i], x[i + 1])

\* lines 172-175.  InterpolatedUnivariateSpline (degree 3, no smoothing)
\* raises ValueError unless energy_kp is strictly increasing, and its
\* fitting routine raises dfitpack.error unless there are more than 3
\* samples.  The spline passes through the samples; it is evaluated here at
\* the sample energies themselves, where its value is dEdk.
GvSpline ==
    /\ gv_pc = "spline"
    /\ IF ~StrictlyIncreasing(gv_energy_kp)
       THEN /\ raised' = "ValueError"
            /\ gv_pc' = "raised"
            /\ UNCHANGED gv_groupVel
       ELSE IF Len(gv_energy_kp) <= 3
       THEN /\ raised' = "dfitpack.error"
            /\ gv_pc' = "raised"
            /\ UNCHANGED gv_groupVel
       ELSE /\ gv_groupVel' = [i \in 1..Len(gv_dEdk) |-> Div(gv_dEdk[i], hBar)]
            /\ gv_pc' = "returned"
            /\ UNCHANGED raised
    /\ UNCHANGED <<gv_kp, gv_energy_kp, gv_dEdk,
                   lateVars, mattVars, fsVars, epVars, feVars, fdVars, impVars, egVars, bsVars>>

GvNext == GvDifference \/ GvSpline

SpecVelocity == GvInit /\ [][GvNext]_vars

----------------------------------------------------------------------------
(* Specification of a call of fermiDistribution *)

\* the Fermi levels drawn: whole units from -MaxEf to MaxEf
MaxEf == 4
FermiLevels == {Q(n) : n \in (-MaxEf)..MaxEf}

\* the call's sweep: 1 to NumSweep pairs <<Fermi level, temperature>>; the
\* temperature is passed (Temp is not None), as in every call of the driver
FdSweeps ==
    UNION {[1..n -> FermiLevels \X {Q(1), Q(2)}] : n \in 1..NumSweep}

FdInit ==
    /\ raised = "none"
    /\ MattIdle /\ FsIdle /\ EpIdle /\ FeIdle /\ ImpIdle /\ EgIdle /\ BsIdle /\ GvIdle /\ LateIdle
    /\ fd_pc = "call"
    /\ \E sw \in FdSweeps :
        /\ fd_fermiLevel = [i \in 1..Len(sw) |-> sw[i][1]]
        /\ fd_Temp = [i \in 1..Len(sw) |-> sw[i][2]]
    /\ fd_fermi = <<>>

\* a broadcast that divides every row by the first temperature
fermiDistributionFirstTemp(E, fermiLevel, T) ==
    <<[i \in 1..Len(T) |-> [k \in 1..Len(E) |-> fermiDirac(E[k], fermiLevel[i], T[1])]],
      [i \in 1..Len(T) |-> [k \in 1..Len(E) |-> dfdE(E[k], fermiLevel[i], T[1])]]>>

\* lines 112-116: fermi = np.array([fermiDirac, dfdE]), each of one row per
\* sweep entry and one column per grid energy
fermiDistribution(E, fermiLevel, T) ==
    <<[i \in 1..Len(T) |-> [k \in 1..Len(E) |-> fermiDirac(E[k], fermiLevel[i], T[i])]],
      [i \in 1..Len(T) |-> [k \in 1..Len(E) |-> dfdE(E[k], fermiLevel[i], T[i])]]>>

FdCall ==
    /\ fd_pc = "call"
    /\ fd_fermi' = fermiDistribution(energyRange, fd_fermiLevel, fd_Temp)
    /\ fd_pc' = "done"
    /\ UNCHANGED <<fd_fermiLevel, fd_Temp, raised, lateVars, mattVars, fsVars, epVars,
                   feVars, impVars, egVars, bsVars, gvVars>>

FdNext == FdCall

SpecDistribution == FdInit /\ [][FdNext]_vars

----------------------------------------------------------------------------
(* tau_Screened_Coulomb, tau_Unscreened_Coulomb, tau_Strongly_Screened_Coulomb *)

\* x**2
Square(x) == Mul(x, x)

\* the largest whole r with r^2 <= n, and with r^3 <= n
RECURSIVE ISqrtFrom(_, _)
ISqrtFrom(n, r) == IF (r + 1) * (r + 1) > n THEN r ELSE ISqrtFrom(n, r + 1)
RECURSIVE ICbrtFrom(_, _)
ICbrtFrom(n, r) == IF (r + 1) * (r + 1) * (r + 1) > n THEN r ELSE ICbrtFrom(n, r + 1)

\* np.sqrt: NaN below zero, exact on zero, inf and ratios of squares, and
\* otherwise rounded down to a multiple of 1/d (never to zero)
Sqrt(x) ==
    IF IsNaN(x) \/ x = NInf THEN NaN
    ELSE IF x = PInf THEN PInf
    ELSE IF x[1] < 0 THEN NaN
    ELSE Norm(ISqrtFrom(x[1] * x[2], 0), x[2])

\* x**(1/3) with the float exponent 1/3: NaN below zero, exact on zero, inf
\* and ratios of cubes, and otherwise rounded down to a multiple of 1/d
Cbrt(x) ==
    IF IsNaN(x) \/ x = NInf THEN NaN
    ELSE IF x = PInf THEN PInf
    ELSE IF x[1] < 0 THEN NaN
    ELSE Norm(ICbrtFrom(x[1] * x[2] * x[2], 0), x[2])

\* x**(3/2) and x**(5/2)
Pow32(x) == Mul(x, Sqrt(x))
Pow52(x) == Mul(Mul(x, x), Sqrt(x))

\* np.log: NaN below zero, -inf at zero, 0 at one, inf at inf; a finite
\* x > 0 is given the value 2(x-1)/(x+1), which has the sign of log x
Log(x) ==
    IF IsNaN(x) \/ x = NInf THEN NaN
    ELSE IF x = PInf THEN PInf
    ELSE IF x[1] < 0 THEN NaN
    ELSE IF x[1] = 0 THEN NInf
    ELSE Div(Mul(Q(2), Sub(x, One)), Add(x, One))

\* tau[np.isnan(tau)] = 0
ZeroNaN(x) == IF IsNaN(x) THEN Zero ELSE x

\* 4*np.pi*self.dielectric*e0
FourPiEps(dielectric) == Mul(Mul(Mul(Q(4), pi), dielectric), e0)

\* 16*np.pi*np.sqrt(2*m_c.T)*(4*np.pi*self.dielectric*e0)**2/N.T/var_tmp
\*     *energyRange**(3/2)/e2C**(5/2), the expression of lines 226 and 235
CoulombLifetime(dielectric, m_c, N, var_tmp, E) ==
    Div(Mul(Div(Div(Mul(Mul(Mul(Q(16), pi), Sqrt(Mul(Q(2), m_c))),
                        Square(FourPiEps(dielectric))),
                    N),
                var_tmp),
            Pow32(E)),
        Pow52(e2C))

\* lines 224-229 at one grid energy
ScreenedAt(dielectric, E, m_c, LD, N) ==
    LET g == Div(Div(Mul(Mul(Mul(Q(8), m_c), Square(LD)), E), Square(hBar)), e2C)
        var_tmp == Sub(Log(Add(One, g)), Div(g, Add(One, g)))
    IN  ZeroNaN(CoulombLifetime(dielectric, m_c, N, var_tmp, E))

tau_Screened_Coulomb(dielectric, E, m_c, LD, N) ==
    [k \in 1..Len(E) |-> ScreenedAt(dielectric, E[k], m_c, LD, N)]

\* lines 233-238 at one grid energy
UnscreenedAt(dielectric, E, m_c, N) ==
    LET g == Div(Div(Mul(Mul(Mul(Q(4), pi), FourPiEps(dielectric)), E), Cbrt(N)), e2C)
        var_tmp == Log(Add(One, Square(g)))
    IN  ZeroNaN(CoulombLifetime(dielectric, m_c, N, var_tmp, E))

tau_Unscreened_Coulomb(dielectric, E, m_c, N) ==
    [k \in 1..Len(E) |-> UnscreenedAt(dielectric, E[k], m_c, N)]

\* a rate expression that subtracts the screening term instead of dividing by it
StronglyScreenedMinus(dielectric, D, LD, N) ==
    Div(Sub(Div(Div(Div(hBar, N), pi), D),
            Square(Div(Square(LD), FourPiEps(dielectric)))),
        Square(e2C))

\* line 241 at one grid energy:
\* hBar/N.T/np.pi/D/(LD.T**2/(4*np.pi*self.dielectric*e0))**2*1/e2C**2
StronglyScreenedAt(dielectric, D, LD, N) ==
    Div(Mul(Div(Div(Div(Div(hBar, N), pi), D),
                Square(Div(Square(LD), FourPiEps(dielectric)))),
            One),
        Square(e2C))

\* lines 240-242: the result is returned as computed
tau_Strongly_Screened_Coulomb(dielectric, D, LD, N) ==
    [k \in 1..Len(D) |-> StronglyScreenedAt(dielectric, D[k], LD, N)]

\* the values drawn: the relative permittivity, the effective mass, the
\* screening length, the impurity concentration and the density of states
Dielectrics == {Zero, One, Q(2)}
Masses == {<<1, 2>>, Q(2)}
ScreeningLengths == {Zero, One, Q(2), PInf, NaN}
Concentrations == {Zero, One, Q(8), Q(-1), PInf}
ImpDoSRows == {[k \in 1..NumE |-> Q(1)], [k \in 1..NumE |-> Q(k - 1)]}

ImpInit ==
    /\ raised = "none"
    /\ MattIdle /\ FsIdle /\ EpIdle /\ FeIdle /\ FdIdle /\ EgIdle /\ BsIdle /\ GvIdle /\ LateIdle
    /\ imp_pc = "call"
    /\ imp_routine \in {"tau_Screened_Coulomb", "tau_Unscreened_Coulomb",
                        "tau_Strongly_Screened_Coulomb"}
    /\ imp_dielectric \in Dielectrics
    /\ imp_m_c \in Masses
    /\ imp_LD \in ScreeningLengths
    /\ imp_N \in Concentrations
    /\ imp_D \in ImpDoSRows
    /\ imp_tau = <<>>

ImpScreened ==
    /\ imp_pc = "call" /\ imp_routine = "tau_Screened_Coulomb"
    /\ imp_tau' = tau_Screened_Coulomb(imp_dielectric, energyRange, imp_m_c, imp_LD, imp_N)
    /\ imp_pc' = "done"
    /\ UNCHANGED <<imp_routine, imp_dielectric, imp_m_c, imp_LD, imp_N, imp_D, raised,
                   lateVars, mattVars, fsVars, epVars, feVars, fdVars, egVars, bsVars, gvVars>>

ImpUnscreened ==
    /\ imp_pc = "call" /\ imp_routine = "tau_Unscreened_Coulomb"
    /\ imp_tau' = tau_Unscreened_Coulomb(imp_dielectric, energyRange, imp_m_c, imp_N)
    /\ imp_pc' = "done"
    /\ UNCHANGED <<imp_routine, imp_dielectric, imp_m_c, imp_LD, imp_N, imp_D, raised,
                   lateVars, mattVars, fsVars, epVars, feVars, fdVars, egVars, bsVars, gvVars>>

ImpStronglyScreened ==
    /\ imp_pc = "call" /\ imp_routine = "tau_Strongly_Screened_Coulomb"
    /\ imp_tau' = tau_Strongly_Screened_Coulomb(imp_dielectric, imp_D, imp_LD, imp_N)
    /\ imp_pc' = "done"
    /\ UNCHANGED <<imp_routine, imp_dielectric, imp_m_c, imp_LD, imp_N, imp_D, raised,
                   lateVars, mattVars, fsVars, epVars, feVars, fdVars, egVars, bsVars, gvVars>>

ImpNext == ImpScreened \/ ImpUnscreened \/ ImpStronglyScreened

SpecImpurity == ImpInit /\ [][ImpNext]_vars

----------------------------------------------------------------------------
(* Specification of a call of electricalProperties *)

EpInit ==
    /\ raised = "none"
    /\ MattIdle /\ FsIdle /\ FeIdle /\ MoreIdle
    /\ ep_pc = "call"
    /\ ep_DoS \in DoSRows
    /\ ep_vg \in vgRows
    /\ \E pts \in [1..NumSweep -> TransportPoints] :
        /\ ep_Temp = [i \in 1..NumSweep |-> pts[i][1]]
        /\ ep_Ef = [i \in 1..NumSweep |-> pts[i][2]]
        /\ ep_dfdE = [i \in 1..NumSweep |-> pts[i][3]]
        /\ ep_tau = [i \in 1..NumSweep |-> pts[i][4]]
    /\ ep_coefficients = <<>>

\* coefficients = self.electricalProperties(E, DoS, vg, Ef, dfdE, Temp, tau)
EpCall ==
    /\ ep_pc = "call"
    /\ ep_coefficients' =
           electricalProperties(energyRange, ep_DoS, ep_vg, ep_Ef, ep_dfdE, ep_Temp, ep_tau)
    /\ ep_pc' = "done"
    /\ UNCHANGED <<ep_DoS, ep_vg, ep_Ef, ep_dfdE, ep_Temp, ep_tau, raised, mattVars, fsVars, feVars, moreVars>>

EpNext == EpCall

SpecTransport == EpInit /\ [][EpNext]_vars

----------------------------------------------------------------------------
(* Specification of the sweep through the carrier statistics and the       *)
(* transport integrals: fermiLevelSelfConsistent followed by               *)
(* fermiDistribution on its result (Ideal_filtering_Si.py, lines 54-55),   *)
(* or a call of electricalProperties                                       *)

\* the densities of states drawn for the carrier statistics
SwDoSRows == {[k \in 1..NumE |-> Q(2)], [k \in 1..NumE |-> IF k = 1 THEN Zero ELSE Q(2)]}

SwInit ==
    /\ raised = "none"
    /\ MattIdle /\ EpIdle /\ FeIdle /\ MoreIdle
    /\ fs_pc = "loop"
    /\ \E pts \in [1..NumSweep -> SweepPoints] :
        /\ fs_Temp = [i \in 1..NumSweep |-> pts[i][1]]
        /\ fs_fermilevel = [i \in 1..NumSweep |-> pts[i][2]]
        /\ fs_cc = [i \in 1..NumSweep |-> pts[i][3]]
    /\ fs_DoS \in SwDoSRows
    /\ fs_idx_j = 0
    /\ fs_result_array = <<>>
    /\ fs_min_idx = <<>> /\ fs_Ef = <<>> /\ fs_n = <<>>

\* dis, dfdE = Si.fermiDistribution(energyRange=e, Temp=T, fermiLevel=fermi)
SwDistribution ==
    /\ fs_pc = "done" /\ fd_pc = "idle"
    /\ fd_fermiLevel' = fs_Ef
    /\ fd_Temp' = fs_Temp
    /\ fd_fermi' = fermiDistribution(energyRange, fs_Ef, fs_Temp)
    /\ fd_pc' = "done"
    /\ UNCHANGED <<raised, lateVars, mattVars, fsVars, epVars, feVars, impVars, egVars, bsVars, gvVars>>

\* the transport call of the sweep, on a flat density of states
SwEpInit == EpInit /\ ep_DoS = [k \in 1..NumE |-> Q(1)]

SwNext == FsRow \/ FsSelect \/ SwDistribution \/ EpCall

SpecSweep == (SwInit \/ SwEpInit) /\ [][SwNext]_vars

-----------------------------------------------------------------------------
(* tau2D_cylinder and tau3D_spherical: the k-point mesh, the triangulation *)
(* of the constant-energy surface and the returned array.  The integrands  *)
(* (Bessel and trigonometric functions) are not evaluated: an entry of the *)
(* returned array is the record of the energy it belongs to and of whether *)
(* it was read off the interpolant of the binned lifetimes.                *)

\* kx, ky, kz = np.linspace(ko, ko + del_k, nk, endpoint=True), in units
\* where ko = 0 and del_k = 1
MeshAxis(num) == linspace(Zero, One, num)

\* E of the reshaped np.meshgrid(kx, ky, kz): element u (from 1) belongs to
\* kx[ix], ky[iy], kz[iz] with u - 1 = (iy*len(kx) + ix)*len(kz) + iz; units
\* where hBar**2/2*e2C = 1 and meff = 1
KpointEnergies(nk) ==
    [u \in 1..(nk[1] * nk[2] * nk[3]) |->
        LET iz == (u - 1) % nk[3]
            ix == ((u - 1) \div nk[3]) % nk[1]
            iy == (u - 1) \div (nk[3] * nk[1])
        IN  Add(Add(Square(MeshAxis(nk[1])[ix + 1]), Square(MeshAxis(nk[2])[iy + 1])),
                Square(MeshAxis(nk[3])[iz + 1]))]

\* Ec of np.unique(E, ...): the distinct energies
UniqueEnergies(E) == {E[u] : u \in 1..Len(E)}

\* Ec[30:], tau_c[tau_idx,30:]: the bins left out of the interpolation
SkipBins == 30

\* tauFunctionEnergy[tau_idx] = ESpline(energyRange): one row per radius,
\* one entry per grid energy
InterpolatedOnGrid(numRadii, grid) ==
    [r \in 1..numRadii |-> [c \in 1..Len(grid) |-> [at |-> grid[c], interpolated |-> TRUE]]]

\* scattering_rate[ro_idx,u]: one row per radius, one entry per k-point
PerKpoint(numRadii, E) ==
    [r \in 1..numRadii |-> [u \in 1..Len(E) |-> [at |-> E[u], interpolated |-> FALSE]]]

\* a range of i that starts one row early
ArangeFromOne(n) == [p \in 1..(n - 1) |-> p]

\* np.arange(2,n) and np.arange(1,n-1), the ranges of i and j
ArangeFromTwo(n) == [p \in 1..(n - 2) |-> p + 1]
ArangeInner(n) == [p \in 1..(n - 2) |-> p]

\* the passes <<i, j>> of the four triangulation loops, in the order run
\* (j = 0 in the two loops along the seam)
LoopPasses(loop, n) ==
    LET iLow == ArangeFromTwo(n)
        iUp == ArangeInner(n)
        js == ArangeInner(n)
    IN  CASE loop = 1 -> [p \in 1..(Len(js) * Len(iLow)) |->
                             <<iLow[((p - 1) % Len(iLow)) + 1], js[((p - 1) \div Len(iLow)) + 1]>>]
          [] loop = 2 -> [p \in 1..(Len(js) * Len(iUp)) |->
                             <<iUp[((p - 1) % Len(iUp)) + 1], js[((p - 1) \div Len(iUp)) + 1]>>]
          [] loop = 3 -> [p \in 1..Len(iLow) |-> <<iLow[p], 0>>]
          [] loop = 4 -> [p \in 1..Len(iUp) |-> <<iUp[p], 0>>]

\* the first loop from `loop` on that has a pass to run, 5 if none has
RECURSIVE LoopFrom(_, _)
LoopFrom(loop, n) ==
    IF loop > 4 THEN 5
    ELSE IF Len(LoopPasses(loop, n)) > 0 THEN loop
    ELSE LoopFrom(loop + 1, n)

\* the number of rows of Q and A: 2 * (n-2) * (n - 1)
TriangleRows(n) == 2 * (n - 2) * (n - 1)

\* the mesh sizes, radii and quadrature sizes drawn
MaxMesh == 33
MaxRadii == 2
MaxMesh3D == 2
MaxQuad == 4

Np2DInit ==
    /\ raised = "none"
    /\ MattIdle /\ FsIdle /\ EpIdle /\ FeIdle /\ FdIdle /\ ImpIdle /\ EgIdle /\ BsIdle /\ GvIdle
    /\ DrIdle /\ VsIdle /\ FlIdle
    /\ np_pc = "call"
    /\ np_routine = "tau2D_cylinder"
    /\ np_nk \in {<<a, b, 1>> : a \in 1..MaxMesh, b \in 1..2}
    /\ np_numRadii \in 1..MaxRadii
    /\ np_n = 0
    /\ np_E = KpointEnergies(np_nk)
    /\ np_u = 0 /\ np_loop = 0 /\ np_pos = 0 /\ np_k = 0 /\ np_rows = 0
    /\ np_written = <<>> /\ np_out = <<>>

Np3DInit ==
    /\ raised = "none"
    /\ MattIdle /\ FsIdle /\ EpIdle /\ FeIdle /\ FdIdle /\ ImpIdle /\ EgIdle /\ BsIdle /\ GvIdle
    /\ DrIdle /\ VsIdle /\ FlIdle
    /\ np_pc = "kpoint"
    /\ np_routine = "tau3D_spherical"
    /\ np_nk \in {<<a, b, c>> : a \in 1..MaxMesh3D, b \in 1..MaxMesh3D, c \in 1..MaxMesh3D}
    /\ np_numRadii \in 1..MaxRadii
    /\ np_n \in 2..MaxQuad
    /\ np_E = KpointEnergies(np_nk)
    /\ np_u = 0 /\ np_loop = 0 /\ np_pos = 0 /\ np_k = 0 /\ np_rows = 0
    /\ np_written = <<>> /\ np_out = <<>>

npOthers ==
    <<mattVars, fsVars, epVars, feVars, fdVars, impVars, egVars, bsVars, gvVars, drVars, vsVars,
      flVars>>

\* tau2D_cylinder, whole: the lifetimes per k-point, their mean per distinct
\* energy, the interpolant over the bins from SkipBins on (which needs two
\* of them) evaluated on the grid
Np2DCall ==
    /\ np_pc = "call"
    /\ IF Cardinality(UniqueEnergies(np_E)) - SkipBins < 2
       THEN /\ raised' = "ValueError"
            /\ np_pc' = "raised"
            /\ np_out' = np_out
       ELSE /\ np_out' = InterpolatedOnGrid(np_numRadii, energyRange)
            /\ np_pc' = "done"
            /\ raised' = raised
    /\ UNCHANGED <<np_routine, np_nk, np_numRadii, np_n, np_E, np_u, np_loop, np_pos,
                   np_k, np_rows, np_written, npOthers>>

\* for u in np.arange(len(E)): Q, A = np.zeros(...), k = 0, up to the loops
Np3DKpoint ==
    /\ np_pc = "kpoint" /\ np_u < Len(np_E)
    /\ np_rows' = TriangleRows(np_n)
    /\ np_written' = <<>>
    /\ np_k' = 0
    /\ np_loop' = LoopFrom(1, np_n)
    /\ np_pos' = 1
    /\ np_pc' = IF LoopFrom(1, np_n) = 5 THEN "rate" ELSE "loops"
    /\ UNCHANGED <<np_routine, np_nk, np_numRadii, np_n, np_E, np_u, np_out, raised, npOthers>>

\* one pass of triangulation loop `loop`: Q[k] = S/3, A[k] = ..., k += 1
Np3DPass(loop) ==
    /\ np_pc = "loops" /\ np_loop = loop
    /\ IF np_k >= np_rows
       THEN /\ raised' = "IndexError"
            /\ np_pc' = "raised"
            /\ UNCHANGED <<np_written, np_k, np_loop, np_pos>>
       ELSE /\ np_written' = Append(np_written, np_k)
            /\ np_k' = np_k + 1
            /\ raised' = raised
            /\ IF np_pos < Len(LoopPasses(loop, np_n))
               THEN np_pos' = np_pos + 1 /\ np_loop' = loop /\ np_pc' = "loops"
               ELSE /\ np_pos' = 1
                    /\ np_loop' = LoopFrom(loop + 1, np_n)
                    /\ np_pc' = IF LoopFrom(loop + 1, np_n) = 5 THEN "rate" ELSE "loops"
    /\ UNCHANGED <<np_routine, np_nk, np_numRadii, np_n, np_E, np_u, np_rows, np_out, npOthers>>

Np3DLoop1 == Np3DPass(1)
Np3DLoop2 == Np3DPass(2)
Np3DLoop3 == Np3DPass(3)
Np3DLoop4 == Np3DPass(4)

\* qx ... scattering_rate[ro_idx,u] for every radius: the end of pass u
Np3DRate ==
    /\ np_pc = "rate"
    /\ np_u' = np_u + 1
    /\ np_pc' = "kpoint"
    /\ UNCHANGED <<np_routine, np_nk, np_numRadii, np_n, np_E, np_loop, np_pos, np_k,
                   np_rows, np_written, np_out, raised, npOthers>>

\* return scattering_rate
Np3DReturn ==
    /\ np_pc = "kpoint" /\ np_u = Len(np_E)
    /\ np_out' = PerKpoint(np_numRadii, np_E)
    /\ np_pc' = "done"
    /\ UNCHANGED <<np_routine, np_nk, np_numRadii, np_n, np_E, np_u, np_loop, np_pos, np_k,
                   np_rows, np_written, raised, npOthers>>

NpNext ==
    \/ Np2DCall
    \/ Np3DKpoint \/ Np3DLoop1 \/ Np3DLoop2 \/ Np3DLoop3 \/ Np3DLoop4
    \/ Np3DRate \/ Np3DReturn

SpecNano == (Np2DInit \/ Np3DInit) /\ [][NpNext]_vars

-----------------------------------------------------------------------------
(* The driver from the effective masses to the filtering calls (lines      *)
(* 76-116), for its three temperatures.  One sweep entry is followed; the  *)
(* lifetimes are rows over the energy grid.                                *)

Runs == {"300K", "500K", "1300K"}

\* T_300K, T_500K, T_1300K, in units of 100 K
T_(run) == CASE run = "300K" -> Q(3) [] run = "500K" -> Q(5) [] run = "1300K" -> Q(13)

\* alpha_300K = alpha_500K = alpha_1300K = 0.5 per eV, in the model's units
alpha == <<2, 5>>

\* 0.23*thermoelectricProperties.me, and Si.dielectric, in the model's units
m_CB_0 == Q(3)
SiDielectric == Q(12)

\* m_CB = 0.23*me*(1+5*alpha*kB*T)
m_CB(T) == Mul(m_CB_0, Add(One, Mul(Mul(Mul(Q(5), alpha), kB), T)))

\* Nc = 2*(m_CB*kB*T/hBar**2/2/np.pi/e2C)**(3/2)
Nc(m, T) ==
    Mul(Q(2), Pow32(Div(Div(Div(Div(Mul(Mul(m, kB), T), Square(hBar)), Q(2)), pi), e2C)))

\* LD = np.sqrt(1/(Nc/Si.dielectric/e0/kB/T*e2C*(F1+15*alpha*kB*T/4*F0)))
\* with F1 = fermi_int[1] and F0 = fermi_int[0]
LD(N_c, T, F1, F0) ==
    Sqrt(Div(One,
             Mul(Mul(Div(Div(Div(Div(N_c, SiDielectric), e0), kB), T), e2C),
                 Add(F1, Mul(Div(Mul(Mul(Mul(Q(15), alpha), kB), T), Q(4)), F0)))))

\* 6*tau, element by element
SixTimes(tau) == [k \in 1..Len(tau) |-> Mul(Q(6), tau[k])]

\* the inputs drawn: the rows [0] and [1] of a Fermi-integral table, a
\* realized concentration, a phonon lifetime row; the density of states
FermiTables == {<<(<<1, 49140>>), (<<1, 65520>>)>>, <<(<<1, 49140>>), (<<1, 21840>>)>>}
RealizedConcentrations == {Q(1), Q(2)}
PhononRows == {[k \in 1..NumE |-> Q(1)], [k \in 1..NumE |-> <<1, 2>>]}
DriverDoS == [k \in 1..NumE |-> Q(2)]

DrInit ==
    /\ raised = "none"
    /\ MattIdle /\ FsIdle /\ EpIdle /\ FeIdle /\ FdIdle /\ ImpIdle /\ EgIdle /\ BsIdle /\ GvIdle
    /\ NpIdle /\ VsIdle /\ FlIdle
    /\ dr_pc = "m_CB"
    /\ dr_fermi_int \in [Runs -> FermiTables]
    /\ dr_cc_sc \in [Runs -> RealizedConcentrations]
    /\ dr_tau_p \in [Runs -> PhononRows]
    /\ dr_m_CB = <<>> /\ dr_Nc = <<>> /\ dr_LD = <<>> /\ dr_tau_ion = <<>> /\ dr_tau = <<>>

drOthers ==
    <<mattVars, fsVars, epVars, feVars, fdVars, impVars, egVars, bsVars, gvVars, npVars, vsVars,
      flVars>>

\* lines 76-78
DrMass ==
    /\ dr_pc = "m_CB"
    /\ dr_m_CB' = [run \in Runs |-> m_CB(T_(run))]
    /\ dr_pc' = "Nc"
    /\ UNCHANGED <<dr_fermi_int, dr_cc_sc, dr_tau_p, dr_Nc, dr_LD, dr_tau_ion, dr_tau,
                   raised, drOthers>>

\* lines 80-82: Nc_300K, Nc_500K and Nc_1300K are all built from m_CB_300K
DrNc ==
    /\ dr_pc = "Nc"
    /\ dr_Nc' = [run \in Runs |-> Nc(dr_m_CB["300K"], T_(run))]
    /\ dr_pc' = "LD"
    /\ UNCHANGED <<dr_fermi_int, dr_cc_sc, dr_tau_p, dr_m_CB, dr_LD, dr_tau_ion, dr_tau,
                   raised, drOthers>>

\* lines 88-92: LD_1300K takes row [1] from fermi_int_300K
DrLD ==
    /\ dr_pc = "LD"
    /\ dr_LD' = [run \in Runs |->
                    LD(dr_Nc[run], T_(run),
                       (IF run = "1300K" THEN dr_fermi_int["300K"] ELSE dr_fermi_int[run])[2],
                       dr_fermi_int[run][1])]
    /\ dr_pc' = "tau_ion"
    /\ UNCHANGED <<dr_fermi_int, dr_cc_sc, dr_tau_p, dr_m_CB, dr_Nc, dr_tau_ion, dr_tau,
                   raised, drOthers>>

\* lines 101-103
DrTauIon ==
    /\ dr_pc = "tau_ion"
    /\ dr_tau_ion' = [run \in Runs |->
                         tau_Strongly_Screened_Coulomb(SiDielectric, DriverDoS, dr_LD[run],
                                                       dr_cc_sc[run])]
    /\ dr_pc' = "tau"
    /\ UNCHANGED <<dr_fermi_int, dr_cc_sc, dr_tau_p, dr_m_CB, dr_Nc, dr_LD, dr_tau,
                   raised, drOthers>>

\* lines 106-108: tau = Si.matthiessen(e, 6*tau_p_npb, 6*tau_ion)
DrTau ==
    /\ dr_pc = "tau"
    /\ dr_tau' = [run \in Runs |->
                     matthiessen(<<energyRange, SixTimes(dr_tau_p[run]),
                                   SixTimes(dr_tau_ion[run])>>)]
    /\ dr_pc' = "Coeff_f"
    /\ UNCHANGED <<dr_fermi_int, dr_cc_sc, dr_tau_p, dr_m_CB, dr_Nc, dr_LD, dr_tau_ion,
                   raised, drOthers>>

\* line 112: Coeff_f_300K = Si.filteringEffect(U= uo, E = e, ...)
DrFilter ==
    /\ dr_pc = "Coeff_f"
    /\ IF BindFails(DriverKeywords)
       THEN raised' = "TypeError" /\ dr_pc' = "raised"
       ELSE raised' = raised /\ dr_pc' = "done"
    /\ UNCHANGED <<dr_fermi_int, dr_cc_sc, dr_tau_p, dr_m_CB, dr_Nc, dr_LD, dr_tau_ion,
                   dr_tau, drOthers>>

DrNext == DrMass \/ DrNc \/ DrLD \/ DrTauIon \/ DrTau \/ DrFilter

SpecDriver == DrInit /\ [][DrNext]_vars

-----------------------------------------------------------------------------
(* The driver's lines 43-51: the band structure is read and a valley       *)
(* segment of one band is cut out of it for electronGroupVelocity.  The    *)
(* literals of the driver (rows 400:600, base row 401, column 4, 800       *)
(* k-points) are scaled down.                                              *)

\* band[400:600, 4]: first row, row past the last, and column (0-based);
\* 401, the base row of the two slices
WindowLo == 1
WindowHi == 5
ValleyColumn == 1
SliceBase == WindowLo + 1

\* numKpoints and numBands of the valley file, and the band energies drawn
ValleyKpoints == 6
ValleyBands == 2
ValleyEnergies == {Q(1), Q(2), Q(3)}

\* line i of a file of whole blocks whose band ValleyColumn has the energy
\* shape[b] at the b-th k-point; the k-points lie on the first axis
ValleyLine(shape, i) ==
    LET b == (i - 1) \div (ValleyBands + 2) + 1
        pos == (i - 1) % (ValleyBands + 2)
    IN  IF pos = 0 THEN <<>>
        ELSE IF pos = 1 THEN <<Q(b), Zero, Zero, One>>
        ELSE IF pos - 2 = ValleyColumn THEN <<Q(pos - 1), shape[b]>>
        ELSE <<Q(pos - 1), Energy(b, pos - 1)>>

ValleyFile(shape) ==
    [i \in 1..(ValleyKpoints * (ValleyBands + 2)) |-> ValleyLine(shape, i)]

\* kp_mag = norm(2*np.pi*np.matmul(kp,RLv), axis=1) for k-points on the
\* first axis, in units of the length of 2*pi*RLv[0]
kp_mag(kp) == [k \in 1..Len(kp) |-> Abs(kp[k][1])]

\* a[start:stop] of a Python sequence, for 0 <= start
PySlice(a, start, stop) ==
    SubSeq(a, start + 1, IF stop < Len(a) THEN stop ELSE Len(a))

\* band[:, c]
BandColumn(band, c) == [r \in 1..Len(band) |-> band[r][c + 1]]

\* the permutations of 1..n that put a in non-decreasing order (np.argsort)
ArgSorts(a) ==
    {f \in [1..Len(a) -> 1..Len(a)] :
        /\ \A i, j \in 1..Len(a) : i # j => f[i] # f[j]
        /\ \A i \in 1..(Len(a) - 1) : ~Less(a[f[i + 1]], a[f[i]])}

VsInit ==
    /\ raised = "none"
    /\ MattIdle /\ FsIdle /\ EpIdle /\ FeIdle /\ FdIdle /\ ImpIdle /\ EgIdle /\ GvIdle
    /\ NpIdle /\ DrIdle /\ FlIdle
    /\ bs_pc = "call"
    /\ bs_numKpoints = ValleyKpoints
    /\ bs_numBands = ValleyBands
    /\ \E shape \in [1..ValleyKpoints -> ValleyEnergies] : bs_file = ValleyFile(shape)
    /\ bs_block = <<>> /\ bs_k = 0 /\ bs_kpoints = <<>> /\ bs_electronDispersian = <<>>
    /\ vs_pc = "slice" /\ vs_min_band = 0 /\ vs_max_band = 0 /\ vs_kp_vel = <<>>
    /\ vs_energy_vel = <<>> /\ vs_kp = <<>> /\ vs_energy_kp = <<>>

vsOthers ==
    <<mattVars, fsVars, epVars, feVars, fdVars, impVars, egVars, bsVars, gvVars, npVars,
      drVars, flVars>>

\* lines 44-49: kp_mag, min_band, max_band, kp_vel and energy_vel
VsSlice ==
    /\ bs_pc = "returned" /\ vs_pc = "slice"
    /\ LET band == bs_electronDispersian
           window == PySlice(BandColumn(band, ValleyColumn), WindowLo, WindowHi)
           min_band == ArgMin(window) - 1
           max_band == ArgMax(window) - 1
       IN  /\ vs_min_band' = min_band
           /\ vs_max_band' = max_band
           /\ vs_kp_vel' = PySlice(kp_mag(bs_kpoints), SliceBase + max_band,
                                   SliceBase + min_band)
           /\ vs_energy_vel' =
                  LET rows == PySlice(BandColumn(band, ValleyColumn), SliceBase + max_band,
                                      SliceBase + min_band)
                  IN  [p \in 1..Len(rows) |->
                          Sub(rows[p], band[SliceBase + min_band + 1][ValleyColumn + 1])]
    /\ vs_pc' = "sort"
    /\ UNCHANGED <<vs_kp, vs_energy_kp, raised, vsOthers>>

\* lines 50-51: enrg_sorted_idx and the arguments kp and energy_kp of the
\* call of electronGroupVelocity
VsSort ==
    /\ vs_pc = "sort"
    /\ \E enrg_sorted_idx \in ArgSorts(vs_energy_vel) :
        /\ vs_kp' = [p \in 1..Len(vs_kp_vel) |-> vs_kp_vel[enrg_sorted_idx[p]]]
        /\ vs_energy_kp' = [p \in 1..Len(vs_energy_vel) |-> vs_energy_vel[enrg_sorted_idx[p]]]
    /\ vs_pc' = "passed"
    /\ UNCHANGED <<vs_min_band, vs_max_band, vs_kp_vel, vs_energy_vel, raised, vsOthers>>

VsNext == BsRead \/ BsKpoint \/ BsReturn \/ VsSlice \/ VsSort

SpecValley == VsInit /\ [][VsNext]_vars

-----------------------------------------------------------------------------
(* fermiLevel and carrierConcentration up to their prefactors Nc and Nv:   *)
(* the lines that choose the temperature and build Nc and Nv.  The         *)
(* arithmetic that follows uses the locals T, Nc and Nv as left by them.   *)

\* Python's None, the default of the optional arguments
None == <<>>

\* temp(): np.arange(300, 1301, 100) as a row, in units of 100 K
temp == [i \in 1..ArangeLen(Q(3), <<1301, 100>>, Q(1)) |-> Q(i + 2)]

\* Ao * Temp**(3. / 2), element by element
Prefactor(Ao, Temp) == [i \in 1..Len(Temp) |-> Mul(Ao, Pow32(Temp[i]))]

\* the operand Temp of **: None has no power
PowerFails(Temp) == Temp = None

\* the arguments drawn; None is an omitted argument
FlTemps == {None, <<Q(1)>>, <<Q(4)>>, <<Q(1), Q(4)>>}
FlCoefficients == {None, Q(1), Q(2)}
FlDensities == {None, <<Q(3)>>}

FlCalls ==
    {[routine |-> "fermiLevel", Temp |-> T, Ao |-> a, Bo |-> None, Nc |-> c, Nv |-> None] :
        T \in FlTemps, a \in FlCoefficients, c \in FlDensities}
    \cup
    {[routine |-> "carrierConcentration", Temp |-> T, Ao |-> a, Bo |-> b, Nc |-> c, Nv |-> v] :
        T \in FlTemps, a \in FlCoefficients, b \in FlCoefficients,
        c \in FlDensities, v \in FlDensities}

FlInit ==
    /\ raised = "none"
    /\ MattIdle /\ FsIdle /\ EpIdle /\ FeIdle /\ FdIdle /\ ImpIdle /\ EgIdle /\ BsIdle /\ GvIdle
    /\ NpIdle /\ DrIdle /\ VsIdle
    /\ fl_pc = "call"
    /\ fl_call \in FlCalls
    /\ fl_T = <<>> /\ fl_Nc = <<>> /\ fl_Nv = <<>>

flOthers ==
    <<mattVars, fsVars, epVars, feVars, fdVars, impVars, egVars, bsVars, gvVars, npVars,
      drVars, vsVars>>

\* fermiLevel, lines 92-99, and the rest of the call
FlFermiLevel ==
    /\ fl_pc = "call" /\ fl_call.routine = "fermiLevel"
    /\ fl_T' = IF fl_call.Temp = None THEN temp ELSE fl_call.Temp
    /\ fl_Nv' = fl_call.Nv
    /\ IF fl_call.Ao = None /\ fl_call.Nc = None
       THEN raised' = "Exception" /\ fl_pc' = "raised" /\ fl_Nc' = fl_call.Nc
       ELSE IF fl_call.Nc = None /\ PowerFails(fl_call.Temp)
       THEN raised' = "TypeError" /\ fl_pc' = "raised" /\ fl_Nc' = fl_call.Nc
       ELSE /\ fl_Nc' = IF fl_call.Nc = None THEN Prefactor(fl_call.Ao, fl_call.Temp)
                        ELSE fl_call.Nc
            /\ fl_pc' = "returned"
            /\ raised' = raised
    /\ UNCHANGED <<fl_call, flOthers>>

\* carrierConcentration, lines 72-83, and the rest of the call
FlCarrierConcentration ==
    /\ fl_pc = "call" /\ fl_call.routine = "carrierConcentration"
    /\ fl_T' = IF fl_call.Temp = None THEN temp ELSE fl_call.Temp
    /\ IF (fl_call.Ao = None /\ fl_call.Nc = None)
            \/ (fl_call.Bo = None /\ fl_call.Nv = None)
       THEN /\ raised' = "Exception" /\ fl_pc' = "raised"
            /\ fl_Nc' = fl_call.Nc /\ fl_Nv' = fl_call.Nv
       ELSE IF fl_call.Nc = None /\ PowerFails(fl_call.Temp)
       THEN /\ raised' = "TypeError" /\ fl_pc' = "raised"
            /\ fl_Nc' = fl_call.Nc /\ fl_Nv' = fl_call.Nv
       ELSE IF fl_call.Nv = None /\ PowerFails(fl_call.Temp)
       THEN /\ raised' = "TypeError" /\ fl_pc' = "raised"
            /\ fl_Nc' = fl_call.Nc /\ fl_Nv' = fl_call.Nv
       ELSE /\ fl_Nc' = IF fl_call.Nc = None THEN Prefactor(fl_call.Ao, fl_call.Temp)
                        ELSE fl_call.Nc
            /\ fl_Nv' = IF fl_call.Nv = None THEN Prefactor(fl_call.Bo, fl_call.Temp)
                        ELSE fl_call.Nv
            /\ fl_pc' = "returned"
            /\ raised' = raised
    /\ UNCHANGED <<fl_call, flOthers>>

FlNext == FlFermiLevel \/ FlCarrierConcentration

SpecPrefactor == FlInit /\ [][FlNext]_vars

----------------------------------------------------------------------------
(* Specification of a call of filteringEffect *)

FeInit ==
    /\ raised = "none"
    /\ MattIdle /\ FsIdle /\ EpIdle /\ MoreIdle
    /\ fe_pc = "call"
    /\ fe_call \in FeCalls
    /\ fe_m = 0 /\ fe_n = 0 /\ fe_u = 0 /\ fe_t = 0
    /\ fe_tau_on = <<>> /\ fe_sMatrix = <<>> /\ fe_shape = <<>>

\* the call binds its arguments; lines 393-395 set n, m and sMatrix
FeBind ==
    /\ fe_pc = "call"
    /\ IF BindFails(fe_call.kw)
       THEN raised' = "TypeError" /\ fe_pc' = "raised"
       ELSE raised' = raised /\ fe_pc' = "outer"
    /\ UNCHANGED <<fe_call, fe_m, fe_n, fe_u, fe_t, fe_tau_on, fe_sMatrix, fe_shape,
                   mattVars, fsVars, epVars, moreVars>>

\* line 399: the next barrier height, if any, and m += 1
FeOuter ==
    /\ fe_pc = "outer"
    /\ IF fe_u < NumBarriers(fe_call)
       THEN /\ fe_u' = fe_u + 1
            /\ fe_m' = fe_m + 1
            /\ fe_t' = 0
            /\ fe_pc' = "inner"
       ELSE /\ fe_pc' = "reshape"
            /\ UNCHANGED <<fe_u, fe_m, fe_t>>
    /\ UNCHANGED <<fe_call, fe_n, fe_tau_on, fe_sMatrix, fe_shape, raised,
                   mattVars, fsVars, epVars, moreVars>>

\* line 401: the next inner value, if any.  The first statement of the body,
\* line 402, reads the name Erange, which raises NameError; were the name
\* bound, line 405 would raise TypeError, calling electricalProperties (seven
\* parameters) with twelve arguments.  Line 404, which assigns tau_on, and
\* lines 406-407 are never reached: tau_on, sMatrix and n keep their values.
FeInner ==
    /\ fe_pc = "inner"
    /\ IF fe_t < NumInner(fe_call)
       THEN /\ raised' = IF "Erange" \in FeNames THEN "TypeError" ELSE "NameError"
            /\ fe_pc' = "raised"
            /\ UNCHANGED fe_t
       ELSE /\ fe_pc' = "outer"
            /\ UNCHANGED <<raised, fe_t>>
    /\ UNCHANGED <<fe_call, fe_m, fe_n, fe_u, fe_tau_on, fe_sMatrix, fe_shape,
                   mattVars, fsVars, epVars, moreVars>>

\* lines 408-409: np.reshape(sMatrix, (n, m)) and the return
FeReshape ==
    /\ fe_pc = "reshape"
    /\ IF Len(fe_sMatrix) = fe_n * fe_m
       THEN /\ fe_shape' = <<fe_n, fe_m>>
            /\ fe_pc' = "returned"
            /\ UNCHANGED raised
       ELSE /\ raised' = "ValueError"
            /\ fe_pc' = "raised"
            /\ UNCHANGED fe_shape
    /\ UNCHANGED <<fe_call, fe_m, fe_n, fe_u, fe_t, fe_tau_on, fe_sMatrix,
                   mattVars, fsVars, epVars, moreVars>>

FeNext == FeBind \/ FeOuter \/ FeInner \/ FeReshape

SpecFilter == FeInit /\ [][FeNext]_vars

----------------------------------------------------------------------------
(* Claims about fermiLevelSelfConsistent *)

Sweep == 1..NumSweep

\* the candidates of sweep entry i and the integral the claims speak of:
\* I_i(c), the trapezoidal integral of DoS * f(E; c, T_i) over the grid
Candidates(i) == fermi(fs_fermilevel[i])
IntegralAt(i, c) == CandidateIntegral(fs_DoS, c, fs_Temp[i])
Distance(i, c) == Abs(Sub(IntegralAt(i, c), fs_cc[i]))

\* C1: for every sweep index i and every DoS (of any sign) the returned Fermi
\* level is the candidate c of the window that minimises |I_i(c) - target_i|.
FermiSolveMinimises ==
    fs_pc = "done" =>
        \A i \in Sweep :
            /\ \E k \in 1..NumFermi : fs_Ef[i] = Candidates(i)[k]
            /\ \A k \in 1..NumFermi :
                   ~Less(Distance(i, Candidates(i)[k]), Distance(i, fs_Ef[i]))

\* the candidates of entry i that are as close to the target as any, closeness
\* being the |diff| the search evaluates
Closest(i) ==
    LET d == AbsDiffRow(fs_cc[i], fs_result_array[i])
    IN  {k \in 1..NumFermi : \A j \in 1..NumFermi : ~Less(d[j], d[k])}

\* C2: of several equally close candidates the earliest, which is the one of
\* lowest energy, is returned.
FermiTiesToEarliest ==
    fs_pc = "done" =>
        \A i \in Sweep :
            /\ fs_min_idx[i] \in Closest(i)
            /\ \A k \in Closest(i) :
                   /\ fs_min_idx[i] <= k
                   /\ k # fs_min_idx[i] => Less(fs_Ef[i], Candidates(i)[k])

\* a finished solve in which two candidates of a non-zero DoS were equally close
FermiTieWitness ==
    /\ fs_pc = "done"
    /\ \E i \in Sweep :
        /\ Cardinality(Closest(i)) = 2
        /\ fs_min_idx[i] < NumFermi
        /\ fs_n[i] # Zero

\* no candidate of entry i reproduces the target: every integral lies on the
\* same side of it, so the root is outside the window
RootExcluded(i) ==
    \/ \A k \in 1..NumFermi : Less(fs_result_array[i][k], fs_cc[i])
    \/ \A k \in 1..NumFermi : Less(fs_cc[i], fs_result_array[i][k])

----------------------------------------------------------------------------
(* Claims about matthiessen *)

\* the arguments of the finished call, in the order p
Permuted(p) == [i \in 1..Len(m_args) |-> m_args[p[i]]]

Permutations(n) == {p \in [1..n -> 1..n] : \A i, j \in 1..n : p[i] = p[j] => i = j}

\* every lifetime of the call is zero, finite positive or +inf
NonNegativeArgs ==
    \A i \in 1..Len(m_args) : \A k \in 1..Len(m_args[i]) : Sgn(m_args[i][k]) >= 0

MattSingleIsIdentity ==
    (m_pc = "done" /\ Len(m_args) = 1 /\ NonNegativeArgs) => m_tau = m_args[1]

\* C6: matthiessen is associative: matthiessen(matthiessen(a, b), c) =
\* matthiessen(a, matthiessen(b, c)) = matthiessen(a, b, c).
MattAssociative ==
    (m_pc = "done" /\ Len(m_args) = 3 /\ NonNegativeArgs) =>
        LET a == m_args[1]
            b == m_args[2]
            c == m_args[3]
        IN  /\ matthiessen(<<matthiessen(<<a, b>>), c>>) = m_tau
            /\ matthiessen(<<a, matthiessen(<<b, c>>)>>) = m_tau

\* C7: matthiessen is commutative: every permutation of the arguments gives
\* the result of the call.
MattCommutative ==
    m_pc = "done" =>
        \A p \in Permutations(Len(m_args)) : matthiessen(Permuted(p)) = m_tau

\* a finished call of three different finite lifetimes at one position
MattCommutativeWitness ==
    /\ m_pc = "done"
    /\ Len(m_args) = 3
    /\ m_args[1][1] = <<1, 2>> /\ m_args[2][1] = Q(2) /\ m_args[3][1] = PInf
    /\ m_args[1][2] = Q(2) /\ m_args[2][2] = PInf /\ m_args[3][2] = Q(2)
    /\ m_tau = << <<2, 5>>, One >>

----------------------------------------------------------------------------
(* Claims about electricalProperties *)

\* the integrand X * tau of sweep entry i at grid point k, with
\* X = DoS * v_g^2 * df/dE, and the weights (E - Ef_i) of Y and Z
Xtau(i, k) ==
    Mul(Mul(Mul(ep_DoS[k], Mul(ep_vg[k], ep_vg[k])), ep_dfdE[i][k]), ep_tau[i][k])
Ytau(i, k) == Mul(Sub(energyRange[k], ep_Ef[i]), Xtau(i, k))
Ztau(i, k) == Mul(Sub(energyRange[k], ep_Ef[i]), Ytau(i, k))

\* the trapezoidal rule over the energy grid, summed from the upper end
RECURSIVE TrapezoidFrom(_, _)
TrapezoidFrom(y, k) ==
    IF k >= NumE THEN Zero
    ELSE Add(Mul(Mul(<<1, 2>>, Sub(energyRange[k + 1], energyRange[k])),
                 Add(y[k], y[k + 1])),
             TrapezoidFrom(y, k + 1))

IntX(i) == TrapezoidFrom([k \in 1..NumE |-> Xtau(i, k)], 1)
IntY(i) == TrapezoidFrom([k \in 1..NumE |-> Ytau(i, k)], 1)
IntZ(i) == TrapezoidFrom([k \in 1..NumE |-> Ztau(i, k)], 1)
IntXE(i) == TrapezoidFrom([k \in 1..NumE |-> Mul(Xtau(i, k), energyRange[k])], 1)
IntXE2(i) ==
    TrapezoidFrom([k \in 1..NumE |->
        Mul(Xtau(i, k), Mul(energyRange[k], energyRange[k]))], 1)

\* C8: the returned list is [Sigma, S, PF, ke, delta1, delta2, Lorenz] with,
\* for every sweep index i, Sigma = -(1/3) e Int(X tau), S = -Int(Y tau) /
\* Int(X tau) / T_i, PF = Sigma S^2, delta1 = Int(X tau E) / Int(X tau),
\* delta2 = Int(X tau E^2) / Int(X tau), Lorenz = (delta2 - delta1^2) / T_i^2.
TransportCoefficientsAsSpecified ==
    ep_pc = "done" =>
        /\ Len(ep_coefficients) = 7
        /\ \A i \in Sweep :
            LET Sigma == Mul(Mul(<<-1, 3>>, e2C), IntX(i))
                S == Div(Div(Neg(IntY(i)), IntX(i)), ep_Temp[i])
                d1 == Div(IntXE(i), IntX(i))
                d2 == Div(IntXE2(i), IntX(i))
            IN  /\ ep_coefficients[1][i] = Sigma
                /\ ep_coefficients[2][i] = S
                /\ ep_coefficients[3][i] = Mul(Sigma, Mul(S, S))
                /\ ep_coefficients[5][i] = d1
                /\ ep_coefficients[6][i] = d2
                /\ ep_coefficients[7][i] =
                       Div(Sub(d2, Mul(d1, d1)), Mul(ep_Temp[i], ep_Temp[i]))

\* a finished call whose two entries differ in temperature and have finite,
\* non-zero Seebeck coefficients and Lorenz numbers
TransportWitness ==
    /\ ep_pc = "done"
    /\ ep_Temp[1] = Q(2) /\ ep_Temp[2] = Q(1)
    /\ \A i \in 1..2 : \A c \in 1..7 :
           IsFin(ep_coefficients[c][i]) /\ ep_coefficients[c][i] # Zero

----------------------------------------------------------------------------
(* Claims about filteringEffect *)

\* a call with well-posed inputs: the driver's, or one that follows the
\* parameter list with at least one barrier height and one inner value
WellPosed ==
    \/ fe_call.kw = DriverKeywords
    \/ NumBarriers(fe_call) >= 1 /\ NumInner(fe_call) >= 1

\* C10: for well-posed inputs the filtering sweep completes and returns a
\* matrix of dimensions (barrier heights, inner sweep values), or its
\* transpose, with every cell present and none NaN.
FilteringReturnsFullMatrix ==
    WellPosed =>
        /\ fe_pc # "raised"
        /\ fe_pc = "returned" =>
            /\ \/ fe_shape = <<NumBarriers(fe_call), NumInner(fe_call)>>
               \/ fe_shape = <<NumInner(fe_call), NumBarriers(fe_call)>>
            /\ Len(fe_sMatrix) = NumBarriers(fe_call) * NumInner(fe_call)
            /\ \A k \in 1..Len(fe_sMatrix) : ~IsNaN(fe_sMatrix[k])

\* a call that follows the parameter list and ended after entering at least
\* one pass of the inner loop
SweptAndEnded ==
    /\ fe_call.kw = FeRequired
    /\ NumBarriers(fe_call) >= 1 /\ NumInner(fe_call) >= 1
    /\ fe_pc \in {"returned", "raised"}

\* the lifetime the claim describes for barrier u and inner value t: the
\* inner (very small) value below the barrier, the baseline elsewhere
FilteredLifetime(u, t) ==
    [k \in 1..NumE |->
        IF Less(energyRange[k], BarrierHeight(u)) THEN InnerValue(t)
        ELSE fe_call.tauOff[k]]

\* C11: for each barrier height and inner index of the sweep, the lifetime
\* handed to electricalProperties is the baseline lifetime at the grid
\* energies above the barrier and the small filtered-out lifetime below it.
FilterLifetimeAsSpecified ==
    SweptAndEnded =>
        \E t \in 1..NumInner(fe_call) : fe_tau_on = FilteredLifetime(fe_u, t)

\* the conductivity of the unfiltered material: electricalProperties with the
\* baseline lifetime, for a flat density of states and Fermi window
BaselineConductivity ==
    electricalProperties(energyRange, [k \in 1..NumE |-> Q(1)], [k \in 1..NumE |-> Q(1)],
                         <<Zero>>, <<dfdERowFlat>>, <<Q(1)>>, <<FeTauOff>>)[1][1]

\* C12: when the barrier height exceeds the largest grid energy no energy is
\* suppressed, and the cells the sweep returns for that barrier equal the
\* unfiltered baseline coefficient.
HighBarrierGivesBaseline ==
    (SweptAndEnded /\ Less(energyMax, BarrierHeight(NumBarriers(fe_call)))) =>
        /\ fe_pc = "returned"
        /\ Len(fe_sMatrix) = NumBarriers(fe_call) * NumInner(fe_call)
        /\ \A t \in 1..NumInner(fe_call) :
               fe_sMatrix[(NumBarriers(fe_call) - 1) * NumInner(fe_call) + t]
                   = BaselineConductivity

----------------------------------------------------------------------------
(* Claims about fermiDistribution *)

\* C13: at every grid energy, for every T > 0 and every Fermi level, the
\* occupation lies strictly between 0 and 1, is exactly 1/2 where E = Ef,
\* and its energy derivative is negative.
OccupationInOpenUnitInterval ==
    fd_pc = "done" =>
        \A i \in 1..Len(fd_Temp) : \A k \in 1..NumE :
            /\ Less(Zero, fd_fermi[1][i][k]) /\ Less(fd_fermi[1][i][k], One)
            /\ energyRange[k] = fd_fermiLevel[i] => fd_fermi[1][i][k] = <<1, 2>>
            /\ Less(fd_fermi[2][i][k], Zero)

\* C14: for a positive exponent argument (E - Ef)/(kB T), however large and
\* also where its exponential overflows, the occupation and its energy
\* derivative are finite numbers.
NoOverflowAboveFermiLevel ==
    fd_pc = "done" =>
        \A i \in 1..Len(fd_Temp) : \A k \in 1..NumE :
            Less(fd_fermiLevel[i], energyRange[k]) =>
                IsFin(fd_fermi[1][i][k]) /\ IsFin(fd_fermi[2][i][k])

----------------------------------------------------------------------------
(* Claims about the ionized-impurity lifetimes *)

\* C15: each of the three ionized-impurity routines maps every NaN of its
\* result to a zero lifetime, so none of the three returns a NaN.
ImpurityLifetimesNeverNaN ==
    imp_pc = "done" => \A k \in 1..Len(imp_tau) : ~IsNaN(imp_tau[k])

\* strictly positive and finite
Positive(x) == IsFin(x) /\ Less(Zero, x)

\* a call of tau_Strongly_Screened_Coulomb with a positive permittivity,
\* screening length, concentration and density of states
StronglyScreenedPositiveInputs ==
    /\ imp_routine = "tau_Strongly_Screened_Coulomb"
    /\ Positive(imp_dielectric) /\ Positive(imp_LD) /\ Positive(imp_N)
    /\ \A k \in 1..NumE : Positive(imp_D[k])

\* C16: tau_Strongly_Screened_Coulomb returns a strictly positive lifetime
\* at every position when the density of states, the screening length, the
\* concentration and the dielectric constant are strictly positive and finite.
StronglyScreenedPositive ==
    (imp_pc = "done" /\ StronglyScreenedPositiveInputs) =>
        \A k \in 1..NumE : Positive(imp_tau[k])

StronglyScreenedPositiveWitness ==
    /\ imp_pc = "done" /\ StronglyScreenedPositiveInputs
    /\ imp_LD = Q(2) /\ imp_N = Q(8) /\ imp_dielectric = Q(2)
    /\ imp_tau = [k \in 1..NumE |-> <<1, 24>>]

----------------------------------------------------------------------------
(* Claims about energyRange *)

ValidRange == Less(eg_energyMin, eg_energyMax) /\ eg_numEnergySampling >= 2

\* C17: for energyMax > energyMin and numEnergySampling >= 2, energyRange
\* returns exactly numEnergySampling strictly increasing, uniformly spaced
\* values, the first equal to energyMin and the last to energyMax.
GridSpansRangeUniformly ==
    (ValidRange /\ eg_pc # "constructed") =>
        /\ eg_pc = "returned"
        /\ Len(eg_grid) = eg_numEnergySampling
        /\ eg_grid[1] = eg_energyMin
        /\ eg_grid[eg_numEnergySampling] = eg_energyMax
        /\ \A k \in 1..(eg_numEnergySampling - 1) :
               /\ Less(eg_grid[k], eg_grid[k + 1])
               /\ Sub(eg_grid[k + 1], eg_grid[k])
                      = Div(Sub(eg_energyMax, eg_energyMin), Q(eg_numEnergySampling - 1))

GridSpansRangeWitness ==
    /\ eg_pc = "returned"
    /\ eg_energyMin = Q(-1) /\ eg_energyMax = Q(1) /\ eg_numEnergySampling = 4
    /\ eg_grid = << <<-1, 1>>, <<-1, 3>>, <<1, 3>>, <<1, 1>> >>

----------------------------------------------------------------------------
(* Claims about electronBandStructure *)

\* the number of k-point lines and of energy lines in the file, and the
\* lines the loops read
KpointLines == Cardinality({i \in 1..Len(bs_file) : Len(bs_file[i]) = 4})
EnergyLines == Cardinality({i \in 1..Len(bs_file) : Len(bs_file[i]) = 2})
LinesRead == bs_numKpoints * (bs_numBands + 2)

BlockCountMismatch == EnergyLines # bs_numKpoints * bs_numBands

BsEnded == bs_pc \in {"returned", "raised"}

----------------------------------------------------------------------------
(* Claims about electronGroupVelocity *)

\* samples in ascending order of energy
SortedByEnergy == \A i \in 1..(Len(gv_energy_kp) - 1) : ~Less(gv_energy_kp[i + 1], gv_energy_kp[i])

\* the quotient (E[j] - E[i]) / (k[j] - k[i])
Slope(i, j) == Div(Sub(gv_energy_kp[j], gv_energy_kp[i]), Sub(gv_kp[j], gv_kp[i]))

\* C20: for n >= 3 samples sorted by energy, dE/dk is the centered
\* difference at every interior sample and the one-sided difference at the
\* first and at the last sample; no difference that wraps around between
\* the first and the last sample remains.
CenteredDifferencesInside ==
    (Len(gv_energy_kp) >= 3 /\ SortedByEnergy /\ gv_pc # "call") =>
        LET n == Len(gv_energy_kp)
        IN  /\ Len(gv_dEdk) = n
            /\ gv_dEdk[1] = Slope(1, 2)
            /\ gv_dEdk[n] = Slope(n - 1, n)
            /\ \A i \in 2..(n - 1) : gv_dEdk[i] = Slope(i - 1, i + 1)

\* a call on four samples whose wrapped differences differ from the
\* one-sided ones at both ends
CenteredDifferencesWitness ==
    /\ gv_pc = "returned"
    /\ gv_energy_kp = <<Q(0), Q(1), Q(2), Q(3)>> /\ gv_kp = <<Q(1), Q(4), Q(9), Q(16)>>
    /\ gv_dEdk = << <<1, 3>>, <<1, 4>>, <<1, 6>>, <<1, 7>> >>
    /\ CyclicDifferences(gv_kp, gv_energy_kp)[1] # gv_dEdk[1]
    /\ CyclicDifferences(gv_kp, gv_energy_kp)[4] # gv_dEdk[4]

\* the number of distinct energies among the samples
DistinctEnergies == Cardinality({gv_energy_kp[i] : i \in 1..Len(gv_energy_kp)})

GvEnded == gv_pc \in {"returned", "raised"}

----------------------------------------------------------------------------
(* Claims about the sweep *)

\* the Fermi level and the realized concentration of a sweep of the single
\* entry (target cc, temperature T, guess)
SolveEntry(cc, T, guess) ==
    LET row == [c \in 1..NumFermi |-> CandidateIntegral(fs_DoS, fermi(guess)[c], T)]
        idx == ArgMin(AbsDiffRow(cc, row))
    IN  <<fermi(guess)[idx], row[idx]>>

\* C22: entry i of every output of fermiLevelSelfConsistent, of
\* fermiDistribution and of electricalProperties is what the entry i of the
\* temperature, Fermi-level and target inputs alone gives, in input order.
SweepKeyedByIndex ==
    /\ fs_pc = "done" =>
           \A i \in 1..Len(fs_Temp) :
               <<fs_Ef[i], fs_n[i]>> = SolveEntry(fs_cc[i], fs_Temp[i], fs_fermilevel[i])
    /\ fd_pc = "done" =>
           /\ Len(fd_fermi[1]) = Len(fd_Temp) /\ Len(fd_fermi[2]) = Len(fd_Temp)
           /\ \A i \in 1..Len(fd_Temp) : \A r \in 1..2 :
                  fd_fermi[r][i] =
                      fermiDistribution(energyRange, <<fd_fermiLevel[i]>>, <<fd_Temp[i]>>)[r][1]
    /\ ep_pc = "done" =>
           /\ \A c \in 1..7 : Len(ep_coefficients[c]) = Len(ep_Temp)
           /\ \A i \in 1..Len(ep_Temp) :
                  LET alone == CoefficientsAt(energyRange, ep_DoS, ep_vg, ep_Ef[i],
                                              ep_dfdE[i], ep_Temp[i], ep_tau[i])
                  IN  \A c \in 1..7 : ep_coefficients[c][i] = alone[c]

\* a finished sweep of the carrier statistics whose entries differ in
\* temperature, in Fermi level and in occupation
SweepKeyedWitness ==
    /\ fs_pc = "done" /\ fd_pc = "done"
    /\ fs_Temp[1] # fs_Temp[2] /\ fs_Ef[1] # fs_Ef[2] /\ fs_n[1] # fs_n[2]
    /\ fd_fermi[1][1] # fd_fermi[1][2]

-----------------------------------------------------------------------------
(* C23 *)

\* C23: a nanoparticle routine that returns, returns one row per inclusion
\* radius and one entry per grid energy, each entry read off the interpolant
\* of the binned lifetimes at that grid energy.
NanoReturnsGridArray ==
    np_pc = "done" =>
        /\ Len(np_out) = np_numRadii
        /\ \A r \in 1..Len(np_out) :
            /\ Len(np_out[r]) = Len(energyRange)
            /\ \A c \in 1..Len(np_out[r]) :
                   np_out[r][c] = [at |-> energyRange[c], interpolated |-> TRUE]

-----------------------------------------------------------------------------
(* C30 *)

\* C30: in tau3D_spherical, for every quadrature size n >= 2 and every
\* k-point, the passes of the four loops write rows 0, 1, 2, ... of Q and A,
\* each once and in increasing order; no write falls outside the
\* 2(n-2)(n-1) allocated rows, and when the loops end every row is written.
TriangleRowsWrittenInOrder ==
    np_routine = "tau3D_spherical" =>
        /\ raised = "none"
        /\ np_written = [p \in 1..np_k |-> p - 1]
        /\ \A p \in 1..Len(np_written) : np_written[p] < np_rows
        /\ np_pc = "rate" =>
               /\ np_rows = 2 * (np_n - 2) * (np_n - 1)
               /\ {np_written[p] : p \in 1..Len(np_written)} = 0..(np_rows - 1)

\* the loops of the second k-point have ended for n = 4, with 12 rows written
TriangleRowsWitness ==
    /\ np_routine = "tau3D_spherical" /\ np_pc = "rate"
    /\ np_u = 1 /\ np_n = 4 /\ np_k = 12 /\ Len(np_written) = 12

-----------------------------------------------------------------------------
(* C24 *)

\* C24: the lifetime the driver hands to the transport integrator is, at
\* every grid energy, the inverse of the sum of the inverses of the phonon
\* and ionized-impurity lifetimes it combines (as passed, i.e. six times
\* each), and of nothing else.
EffectiveLifetimeOfMechanismsOnly ==
    dr_tau # <<>> =>
        \A run \in Runs : \A k \in 1..Len(energyRange) :
            dr_tau[run][k] =
                MatthiessenAt(<<Mul(Q(6), dr_tau_p[run][k]), Mul(Q(6), dr_tau_ion[run][k])>>)

-----------------------------------------------------------------------------
(* C29 *)

\* C29: every quantity the driver computes for one temperature is computed
\* from the inputs of that temperature only: Nc from the effective mass of
\* its temperature, LD from its Nc and both rows of its own Fermi-integral
\* table, the impurity lifetime from its LD and realized concentration, the
\* combined lifetime from its own lifetimes.
TemperaturesKeptApart ==
    /\ dr_Nc # <<>> => \A run \in Runs : dr_Nc[run] = Nc(dr_m_CB[run], T_(run))
    /\ dr_LD # <<>> =>
           \A run \in Runs :
               dr_LD[run] = LD(dr_Nc[run], T_(run), dr_fermi_int[run][2], dr_fermi_int[run][1])
    /\ dr_tau_ion # <<>> =>
           \A run \in Runs :
               dr_tau_ion[run] =
                   tau_Strongly_Screened_Coulomb(SiDielectric, DriverDoS, dr_LD[run],
                                                 dr_cc_sc[run])
    /\ dr_tau # <<>> =>
           \A run \in Runs :
               dr_tau[run] = matthiessen(<<energyRange, SixTimes(dr_tau_p[run]),
                                           SixTimes(dr_tau_ion[run])>>)

-----------------------------------------------------------------------------
(* C25 *)

\* C25: a call of filteringEffect with B >= 1 barrier heights and K >= 1
\* inner values ends by returning; the flat accumulator then holds B*K
\* values and the two dimensions of the reshape multiply to B*K.
AccumulatorFitsReshape ==
    SweptAndEnded =>
        /\ fe_pc = "returned"
        /\ Len(fe_sMatrix) = NumBarriers(fe_call) * NumInner(fe_call)
        /\ fe_n * fe_m = NumBarriers(fe_call) * NumInner(fe_call)
        /\ fe_shape = <<fe_n, fe_m>>

-----------------------------------------------------------------------------
(* C26 *)

\* C26: for every sweep entry i the returned Fermi level is one of the
\* tabulated candidates, so it lies within the half-width of the guess, and
\* the returned concentration is the integral of DoS*f that was tabulated
\* for that same candidate at the temperature of the entry.
FermiPairConsistent ==
    fs_pc = "done" =>
        \A i \in 1..Len(fs_Temp) :
            /\ \E k \in 1..NumFermi :
                   /\ fs_Ef[i] = fermi(fs_fermilevel[i])[k]
                   /\ fs_n[i] = fs_result_array[i][k]
            /\ ~Less(fs_Ef[i], Sub(fs_fermilevel[i], FermiHalfWidth))
            /\ ~Less(Add(fs_fermilevel[i], FermiHalfWidth), fs_Ef[i])
            /\ fs_n[i] = CandidateIntegral(fs_DoS, fs_Ef[i], fs_Temp[i])

\* a finished solve that returned an end of the window for one entry and an
\* inner candidate for the other, with different non-zero concentrations
FermiPairWitness ==
    /\ fs_pc = "done"
    /\ fs_Ef[1] = Add(fs_fermilevel[1], FermiHalfWidth)
    /\ Less(Sub(fs_fermilevel[2], FermiHalfWidth), fs_Ef[2])
    /\ Less(fs_Ef[2], Add(fs_fermilevel[2], FermiHalfWidth))
    /\ fs_n[1] # fs_n[2] /\ fs_n[1] # Zero /\ fs_n[2] # Zero

-----------------------------------------------------------------------------
(* C27 *)

\* the energy of band ValleyColumn at the k-th k-point of the file (k from 1)
FileEnergy(k) == bs_file[(k - 1) * (bs_numBands + 2) + 3 + ValleyColumn][2]

\* C27: electronBandStructure returns the coordinates of the k-th k-point
\* in row k of kpoints and its band energies in row k+1 of the band array,
\* under a row 0 of band indices; and every sample of the valley segment,
\* as cut out and as passed to electronGroupVelocity, pairs the magnitude of
\* a k-point with the energy of that same k-point (relative to the reference
\* energy the driver subtracts).
ValleySamplesPairSameKpoint ==
    /\ (bs_pc = "returned" /\ vs_pc # "idle") =>
           /\ Len(bs_electronDispersian) = bs_numKpoints + 1
           /\ bs_electronDispersian[1] = [j \in 1..bs_numBands |-> Q(j)]
           /\ \A k \in 1..bs_numKpoints :
                  /\ bs_kpoints[k] = SubSeq(bs_file[(k - 1) * (bs_numBands + 2) + 2], 1, 3)
                  /\ bs_electronDispersian[k + 1][ValleyColumn + 1] = FileEnergy(k)
    /\ vs_pc \in {"sort", "passed"} =>
           LET ref == bs_electronDispersian[SliceBase + vs_min_band + 1][ValleyColumn + 1]
               Paired(kp, energy) ==
                   /\ Len(kp) = Len(energy)
                   /\ \A p \in 1..Len(kp) :
                          \E k \in 1..bs_numKpoints :
                              /\ kp[p] = kp_mag(bs_kpoints)[k]
                              /\ energy[p] = Sub(FileEnergy(k), ref)
           IN  /\ Paired(vs_kp_vel, vs_energy_vel)
               /\ vs_pc = "passed" => Paired(vs_kp, vs_energy_kp)

-----------------------------------------------------------------------------
(* C28 *)

\* C28: a call of fermiLevel or carrierConcentration that omits Temp and
\* gives Ao (and Bo, for carrierConcentration) completes without raising,
\* with the default sweep temp() as its temperature and with the prefactors
\* it had to compute equal to Ao*T**(3/2) and Bo*T**(3/2) of that sweep.
DefaultSweepInPrefactors ==
    (/\ fl_pc \in {"returned", "raised"}
     /\ fl_call.Temp = None
     /\ fl_call.Ao # None
     /\ fl_call.routine = "carrierConcentration" => fl_call.Bo # None) =>
        /\ raised = "none"
        /\ fl_pc = "returned"
        /\ fl_T = temp
        /\ fl_call.Nc = None => fl_Nc = Prefactor(fl_call.Ao, temp)
        /\ (fl_call.routine = "carrierConcentration" /\ fl_call.Nv = None) =>
               fl_Nv = Prefactor(fl_call.Bo, temp)

====
